---------------------------- MODULE Spec2Model ----------------------------
(***************************************************************************)
(* A model of HubMind's agent/tool orchestration layer:                    *)
(*   - HubMindAgent.chat            (src/src/agents/hubmind_agent.py)      *)
(*   - the agent tool wrappers      (src/src/agents/hubmind_agent.py)      *)
(*   - GitHubPRTool/GitHubIssueTool (src/src/tools/github_pr.py,           *)
(*                                   src/src/tools/github_issue.py)        *)
(*   - GitHubTrendingTool           (src/src/tools/github_trending/)       *)
(*   - HubMindQAAgent               (src/src/agents/qa_agent.py)           *)
(*   - LLMFactory registry          (src/src/utils/llm_factory.py)         *)
(*                                                                         *)
(* In the chat part Python values are records [t, s]: t is the Python      *)
(* type, s the text of a str, a TLA+ string built with \o as the f-strings *)
(* of the source build it.  In the tool, QA and factory parts a Python str *)
(* is the sequence of its characters, so that lower(), strip(), split(),   *)
(* slicing, "in" and sorted() are computed.  Non-ASCII literals of the     *)
(* source are written in ASCII.                                            *)
(*                                                                         *)
(* Each part has its own next-state relation and specification (SpecChat,  *)
(* SpecTools, SpecQa, SpecFactory, SpecAdapters, SpecBackend) over the     *)
(* same variables.                                                         *)
(***************************************************************************)
EXTENDS Integers, Sequences, FiniteSets, TLC

VARIABLES
    \* ---- HubMindAgent.chat ----
    chat_pc,        \* position inside chat(): idle, invoke1, sleep, invoke2, extract, done
    chat_message,   \* the message argument
    chat_history,   \* the chat_history argument
    thread_id,      \* config["configurable"]["thread_id"]
    input_data,     \* input_data["messages"]
    result,         \* the local variable result
    invokeLog,      \* every self.agent.invoke made by the current call, in order
    sleeps,         \* time.sleep calls made by the current call
    now,            \* the clock time.time() reads, in ticks of 0.5 s
    chat_raised,    \* the exception that left the try body of the current call
    chat_ret,       \* what the current call handed to its caller
    \* ---- tool calls ----
    tool_pc,        \* idle, or done: a tool call has run and its caller holds the result
    tool_name,      \* the wrapper or tool method that was called
    tool_input,     \* its arguments
    tool_env,       \* what GitHub and the LLM did during the call, and the issues before it
    tool_out,       \* what the call returned or raised
    gh_calls,       \* the GitHub calls the call made, in order
    gh_issues,      \* the issues of the repository on GitHub
    \* ---- HubMindQAAgent.answer_repo_question ----
    qa_pc,          \* idle, or done: a call has run and its caller holds the answer
    qa_input,       \* repo_full_name and question
    qa_env,         \* what GitHub holds and which calls fail during the call
    qa_out,         \* the dict the call returned
    qa_context,     \* the context _gather_repo_context returned
    qa_calls,       \* the GitHub calls the call made, in order
    qa_prompts,     \* the prompts the call sent to the LLM
    \* ---- LLMFactory ----
    creators,       \* LLMFactory._CREATORS: provider name -> creator
    reg_log,        \* every register call made so far, in order (history)
    factory_pc,     \* idle, or done: a create_llm call has run
    factory_in,     \* the arguments of that create_llm call
    factory_out,    \* raise (by create_llm itself) or delegated (to a creator)
    creator_calls,  \* the creator calls that create_llm call made
    \* ---- LLM client adapters ----
    adapter_pc,     \* idle, or done: create_llm has run through to the creator
    adapter_in,     \* the arguments of that create_llm call
    adapter_env,    \* the environment variables set and the packages not installed
    adapter_out,    \* the client the creator built, or the exception raised
    \* ---- backend ----
    config,         \* the process configuration (Config), read once at import
    defaults,       \* the module-level default instances _agent, _qa_agent, ...
    built,          \* how many default instances of each kind were built (history)
    made,           \* how many instances were built at all; the next one gets made + 1
    loop_owner,     \* the request whose coroutine the event loop is running, or 0
    requests,       \* the requests that arrived, each with its position and answer
    \* ---- tool methods called on their own ----
    method_pc,      \* idle, or done: a method call has run
    method_name,    \* the method that was called
    method_in,      \* its arguments and what GitHub holds
    method_out,     \* what it returned
    \* ---- registration ----
    db,             \* the committed rows of the users and user_settings tables
    auth_requests   \* the register and settings requests that arrived, each with its position

chatVars == <<chat_pc, chat_message, chat_history, thread_id, input_data,
              result, invokeLog, sleeps, now, chat_raised, chat_ret>>

toolVars == <<tool_pc, tool_name, tool_input, tool_env, tool_out, gh_calls, gh_issues>>

qaVars == <<qa_pc, qa_input, qa_env, qa_out, qa_context, qa_calls, qa_prompts>>

factoryVars == <<creators, reg_log, factory_pc, factory_in, factory_out, creator_calls>>

adapterVars == <<adapter_pc, adapter_in, adapter_env, adapter_out>>

backendVars == <<config, defaults, built, made, loop_owner, requests>>

methodVars == <<method_pc, method_name, method_in, method_out>>

registerVars == <<db, auth_requests>>

otherThanChat == <<toolVars, qaVars, factoryVars, adapterVars, backendVars, methodVars, registerVars>>
otherThanTools == <<chatVars, qaVars, factoryVars, adapterVars, backendVars, methodVars, registerVars>>
otherThanQa == <<chatVars, toolVars, factoryVars, adapterVars, backendVars, methodVars, registerVars>>
otherThanFactory == <<chatVars, toolVars, qaVars, adapterVars, backendVars, methodVars, registerVars>>
otherThanAdapters == <<chatVars, toolVars, qaVars, factoryVars, backendVars, methodVars, registerVars>>
otherThanBackend == <<chatVars, toolVars, qaVars, factoryVars, adapterVars, methodVars, registerVars>>
otherThanMethods == <<chatVars, toolVars, qaVars, factoryVars, adapterVars,
                      backendVars, registerVars>>
otherThanRegister == <<chatVars, toolVars, qaVars, factoryVars, adapterVars,
                       backendVars, methodVars>>

vars == <<chatVars, toolVars, qaVars, factoryVars, adapterVars, backendVars,
         methodVars, registerVars>>

-----------------------------------------------------------------------------
(***************************************************************************)
(* Bounds of the model.                                                    *)
(***************************************************************************)
MaxMsgs == 2        \* longest result["messages"] list enumerated
MaxClock == 2       \* chat() is not entered once the clock passed this tick
MaxPulls == 2       \* most pull requests a repository lists
MaxIssues == 3      \* no issue is created once the repository holds this many
MaxRegs == 2        \* most register calls made after import
MaxRequests == 2    \* most requests the backend is sent
MaxListed == 3      \* most pull requests a listing holds when a method is called on its own
MaxSimilar == 7     \* most issues a repository holds when create_issue_from_text is called on its own
MaxExcess == 2      \* how far below and above 100 characters the first lines tried reach
MaxSignups == 2     \* most register requests the backend is sent
MaxSettingsPuts == 1 \* most PUT /api/settings requests the backend is sent

-----------------------------------------------------------------------------
(***************************************************************************)
(* Python values and exceptions.                                           *)
(***************************************************************************)
PyStr(s) == [t |-> "str", s |-> s]
PyNone == [t |-> "none", s |-> ""]
PyList == [t |-> "list", s |-> ""]     \* a non-empty list (content blocks)

\* bool(v)
Truthy(v) == CASE v.t = "str"  -> v.s # ""
               [] v.t = "none" -> FALSE
               [] v.t = "list" -> TRUE

\* the strings of the model that consist of whitespace only
WhitespaceOnly == {"", " ", "  "}

\* s.strip() == ""
StripIsEmpty(s) == s \in WhitespaceOnly

\* str(v)
Str(v) == CASE v.t = "str"  -> v
            [] v.t = "none" -> PyStr("None")
            [] v.t = "list" -> PyStr("[{'type': 'text'}]")

IsStr(v) == v.t = "str"

\* The exception classes that occur, each with its direct base class.
ExcBase(cls) == CASE cls = "BrokenPipeError"      -> "ConnectionError"
                  [] cls = "ConnectionResetError" -> "ConnectionError"
                  [] cls = "ConnectionError"      -> "OSError"
                  [] cls = "TimeoutError"         -> "OSError"
                  [] cls = "OSError"              -> "Exception"
                  [] cls = "JSONDecodeError"      -> "ValueError"
                  [] cls = "UnicodeEncodeError"   -> "ValueError"
                  [] cls = "ValueError"           -> "Exception"
                  [] cls = "KeyError"             -> "Exception"
                  [] cls = "TypeError"            -> "Exception"
                  [] cls = "AttributeError"       -> "Exception"
                  [] cls = "RuntimeError"         -> "Exception"
                  [] cls = "GithubException"      -> "Exception"
                  [] cls = "Exception"            -> "BaseException"
                  [] OTHER                        -> "BaseException"

\* isinstance(e, base) for an exception e of class cls
RECURSIVE IsInstance(_, _)
IsInstance(cls, base) ==
    IF cls = base THEN TRUE
    ELSE IF cls = "BaseException" THEN FALSE
    ELSE IsInstance(ExcBase(cls), base)

Exc(cls, text) == [cls |-> cls, text |-> text]     \* text is str(e)
NoExc == Exc("", "")

\* How a call ends: it returns a value or raises an exception.
Return(v) == [kind |-> "return", val |-> v, exc |-> NoExc]
Raise(e)  == [kind |-> "raise",  val |-> PyNone, exc |-> e]
NoOutcome == [kind |-> "none",   val |-> PyNone, exc |-> NoExc]

-----------------------------------------------------------------------------
(***************************************************************************)
(* HubMindAgent.chat                                                       *)
(***************************************************************************)

\* "连接中断，请刷新页面重试。" (connection interrupted, refresh and retry)
ConnInterrupted == "connection interrupted, please refresh the page and retry."
\* "处理请求时出错: " ... "。请检查配置是否正确。"
ErrPrefix == "error processing request: "
ErrSuffix == ". Please check your configuration."

\* hashlib.md5(s.encode()).hexdigest()[:8], kept symbolic
Md5Hex8(s) == "md5[:8](" \o s \o ")"

\* A message whose encode() raises (a lone surrogate from a JSON escape).
SurrogateMsg == "\\ud800"
Encodable(s) == s # SurrogateMsg

ChatMessages == {"hi", "show trending", SurrogateMsg}
Turn(role, content) == [role |-> role, content |-> content]
ChatHistories == {<<>>, <<Turn("user", "hello"), Turn("assistant", "hey")>>}

\* HumanMessage(content=message)
HumanMessage(s) == [role |-> "human", content |-> s]

\* The contents a message or a field can hold.
Contents == {PyStr("answer"), PyStr(""), PyStr("  "), PyNone, PyList}

\* One element of result["messages"]: an object with a content attribute
\* ("obj"), a dict with or without a "content" key ("dict"), or anything
\* else ("other": no content attribute, not a dict).
ObjMsg(c)  == [k |-> "obj",  has |-> TRUE,  content |-> c]
DictMsg(c) == [k |-> "dict", has |-> TRUE,  content |-> c]
DictMsgNoContent == [k |-> "dict", has |-> FALSE, content |-> PyNone]
OtherMsg == [k |-> "other", has |-> FALSE, content |-> PyNone]
MsgContents == Contents \ {PyNone}
Msgs == {ObjMsg(c) : c \in MsgContents} \cup {DictMsg(c) : c \in MsgContents}
            \cup {DictMsgNoContent, OtherMsg}

\* str(msg)
StrMsg(m) == PyStr("<" \o m.k \o ">")

MsgLists == UNION {[1..n -> Msgs] : n \in 0..MaxMsgs}

\* What agent.invoke can return.
DictResult(hasM, ms, hasO, o) ==
    [isDict |-> TRUE, hasMessages |-> hasM, messages |-> ms,
     hasOutput |-> hasO, output |-> o, hasContent |-> FALSE, value |-> PyNone]
ObjResult(c) ==
    [isDict |-> FALSE, hasMessages |-> FALSE, messages |-> <<>>,
     hasOutput |-> FALSE, output |-> PyNone, hasContent |-> TRUE, value |-> c]
BareResult(v) ==
    [isDict |-> FALSE, hasMessages |-> FALSE, messages |-> <<>>,
     hasOutput |-> FALSE, output |-> PyNone, hasContent |-> FALSE, value |-> v]
NoResult == BareResult(PyNone)

Results ==
    {DictResult(TRUE, ms, FALSE, PyNone) : ms \in MsgLists}
        \cup {DictResult(TRUE, <<>>, TRUE, o) : o \in Contents}
        \cup {DictResult(TRUE, <<m>>, TRUE, o) :
                m \in {ObjMsg(PyStr("")), ObjMsg(PyStr("answer")), DictMsg(PyStr("  "))},
                o \in {PyStr("answer"), PyNone}}
        \cup {DictResult(FALSE, <<>>, TRUE, o) : o \in Contents}
        \cup {DictResult(FALSE, <<>>, FALSE, PyNone)}
        \cup {ObjResult(c) : c \in Contents}
        \cup {BareResult(v) : v \in Contents}

\* str(result)
StrResult(r) == IF r.isDict THEN PyStr("{...}")
                ELSE IF r.hasContent THEN PyStr("<object>")
                ELSE Str(r.value)

\* The exceptions agent.invoke can raise.
InvokeExcClasses == {"BrokenPipeError", "ConnectionResetError", "ConnectionError",
                     "TimeoutError", "OSError", "ValueError", "RuntimeError"}
InvokeExcs == {Exc(c, "boom") : c \in InvokeExcClasses}

\* Every outcome of one agent.invoke.
InvokeOutcome(kind, e, r) == [kind |-> kind, exc |-> e, result |-> r]
InvokeOutcomes == {InvokeOutcome("raise", e, NoResult) : e \in InvokeExcs}
                    \cup {InvokeOutcome("return", NoExc, r) : r \in Results}

\* except (BrokenPipeError, ConnectionError, OSError)
IsConnectionClass(cls) ==
    \/ IsInstance(cls, "BrokenPipeError")
    \/ IsInstance(cls, "ConnectionError")
    \/ IsInstance(cls, "OSError")

\* a retry on any exception instead of the connection classes only
RetryCatchesAny(e) == TRUE

\* the inner except clause around the first invoke (line 357)
RetryCatches(e) == IsConnectionClass(e.cls)

\* the loop "for msg in reversed(messages)" from index i down to 1, then the
\* fallback str(messages[-1])
RECURSIVE ScanMessages(_, _)
ScanMessages(ms, i) ==
    IF i = 0 THEN Return(StrMsg(ms[Len(ms)]))
    ELSE LET m == ms[i] IN
         IF m.k = "obj"
         THEN IF Truthy(m.content)
              THEN IF ~IsStr(m.content)
                   THEN Raise(Exc("AttributeError",
                                  "'list' object has no attribute 'strip'"))
                   ELSE IF ~StripIsEmpty(m.content.s)
                        THEN Return(m.content)
                        ELSE ScanMessages(ms, i - 1)
              ELSE ScanMessages(ms, i - 1)
         ELSE IF m.k = "dict"
              THEN IF m.has /\ Truthy(m.content)
                   THEN Return(m.content)
                   ELSE ScanMessages(ms, i - 1)
              ELSE ScanMessages(ms, i - 1)

\* lines 367-390: the response extraction
ExtractResponse(r) ==
    IF r.isDict
    THEN IF r.hasMessages /\ Len(r.messages) > 0
         THEN ScanMessages(r.messages, Len(r.messages))
         ELSE IF r.hasOutput
              THEN Return(r.output)
              ELSE Return(StrResult(r))
    ELSE IF r.hasContent
         THEN Return(r.value)
         ELSE Return(StrResult(r))

\* the fixed text without the exception's message
FormatErrorNoReason(text) == ErrPrefix \o ErrSuffix

\* f"处理请求时出错: {str(e)}。请检查配置是否正确。"
FormatError(text) == ErrPrefix \o text \o ErrSuffix

\* lines 391-399: the two outer except clauses
OuterHandler(e) ==
    IF IsConnectionClass(e.cls) THEN Return(PyStr(ConnInterrupted))
    ELSE IF IsInstance(e.cls, "Exception") THEN Return(PyStr(FormatError(e.text)))
    ELSE Raise(e)

ChatInit ==
    /\ chat_pc = "idle"
    /\ chat_message = ""
    /\ chat_history = <<>>
    /\ thread_id = ""
    /\ input_data = <<>>
    /\ result = NoResult
    /\ invokeLog = <<>>
    /\ sleeps = 0
    /\ now = 0
    /\ chat_raised = NoExc
    /\ chat_ret = NoOutcome

\* chat(message, chat_history) is entered: lines 344-352
ChatCall(message, history) ==
    /\ chat_pc = "idle"
    /\ now <= MaxClock
    /\ chat_message' = message
    /\ chat_history' = history
    /\ result' = NoResult
    /\ invokeLog' = <<>>
    /\ sleeps' = 0
    /\ IF Encodable(message)
       THEN /\ thread_id' = Md5Hex8(message)
            /\ input_data' = <<HumanMessage(message)>>
            /\ chat_raised' = NoExc
            /\ chat_ret' = NoOutcome
            /\ chat_pc' = "invoke1"
       ELSE LET e == Exc("UnicodeEncodeError", "surrogates not allowed") IN
            /\ thread_id' = ""
            /\ input_data' = <<>>
            /\ chat_raised' = e
            /\ chat_ret' = OuterHandler(e)
            /\ chat_pc' = "done"
    /\ UNCHANGED now
    /\ UNCHANGED otherThanChat

\* line 356: the first self.agent.invoke(input_data, config)
AgentInvoke1(o) ==
    /\ chat_pc = "invoke1"
    /\ invokeLog' = Append(invokeLog,
                           [thread_id |-> thread_id, input |-> input_data, outcome |-> o])
    /\ IF o.kind = "return"
       THEN /\ result' = o.result
            /\ chat_pc' = "extract"
            /\ UNCHANGED <<chat_raised, chat_ret>>
       ELSE IF RetryCatches(o.exc)
            THEN /\ chat_pc' = "sleep"
                 /\ UNCHANGED <<result, chat_raised, chat_ret>>
            ELSE /\ chat_raised' = o.exc
                 /\ chat_ret' = OuterHandler(o.exc)
                 /\ chat_pc' = "done"
                 /\ UNCHANGED result
    /\ UNCHANGED <<chat_message, chat_history, thread_id, input_data, sleeps, now>>
    /\ UNCHANGED otherThanChat

\* lines 359-362: time.sleep(0.5), then the thread id is derived again from
\* the message and time.time(); the sleep lasts at least one tick
RetrySleep(d) ==
    /\ chat_pc = "sleep"
    /\ sleeps' = sleeps + 1
    /\ now' = now + d
    /\ thread_id' = Md5Hex8(chat_message \o "_" \o ToString(now'))
    /\ chat_pc' = "invoke2"
    /\ UNCHANGED <<chat_message, chat_history, input_data, result, invokeLog,
                   chat_raised, chat_ret>>
    /\ UNCHANGED otherThanChat

\* line 363: the retried self.agent.invoke(input_data, config)
AgentInvoke2(o) ==
    /\ chat_pc = "invoke2"
    /\ invokeLog' = Append(invokeLog,
                           [thread_id |-> thread_id, input |-> input_data, outcome |-> o])
    /\ IF o.kind = "return"
       THEN /\ result' = o.result
            /\ chat_pc' = "extract"
            /\ UNCHANGED <<chat_raised, chat_ret>>
       ELSE /\ chat_raised' = o.exc
            /\ chat_ret' = OuterHandler(o.exc)
            /\ chat_pc' = "done"
            /\ UNCHANGED result
    /\ UNCHANGED <<chat_message, chat_history, thread_id, input_data, sleeps, now>>
    /\ UNCHANGED otherThanChat

\* lines 365-390, and the outer handlers for what the extraction raises
ChatExtract ==
    /\ chat_pc = "extract"
    /\ LET x == ExtractResponse(result) IN
       IF x.kind = "return"
       THEN /\ chat_ret' = x
            /\ UNCHANGED chat_raised
       ELSE /\ chat_raised' = x.exc
            /\ chat_ret' = OuterHandler(x.exc)
    /\ chat_pc' = "done"
    /\ UNCHANGED <<chat_message, chat_history, thread_id, input_data, result,
                   invokeLog, sleeps, now>>
    /\ UNCHANGED otherThanChat

\* the caller has the value and the call's locals are gone; the agent is
\* ready for the next chat()
ChatReturn ==
    /\ chat_pc = "done"
    /\ chat_pc' = "idle"
    /\ chat_message' = ""
    /\ chat_history' = <<>>
    /\ thread_id' = ""
    /\ input_data' = <<>>
    /\ result' = NoResult
    /\ invokeLog' = <<>>
    /\ sleeps' = 0
    /\ chat_raised' = NoExc
    /\ chat_ret' = NoOutcome
    /\ UNCHANGED now
    /\ UNCHANGED otherThanChat

NextChat ==
    \/ \E m \in ChatMessages, h \in ChatHistories : ChatCall(m, h)
    \/ \E o \in InvokeOutcomes : AgentInvoke1(o)
    \/ \E d \in 1..2 : RetrySleep(d)
    \/ \E o \in InvokeOutcomes : AgentInvoke2(o)
    \/ ChatExtract
    \/ ChatReturn

-----------------------------------------------------------------------------
(***************************************************************************)
(* Claims about HubMindAgent.chat                                          *)
(***************************************************************************)

\* the I/O and connection exception classes, as the claims name them
ConnFaultClasses == {"BrokenPipeError", "ConnectionResetError", "ConnectionError",
                     "TimeoutError", "OSError"}
IsConnFault(e) == e.cls \in ConnFaultClasses

FirstRaised == Len(invokeLog) >= 1 /\ invokeLog[1].outcome.kind = "raise"
SecondRaised == Len(invokeLog) >= 2 /\ invokeLog[2].outcome.kind = "raise"

\* C1: whenever chat() has finished, it handed a str to its caller and no
\* exception escaped, whatever the agent invocations raised or returned.
C1_ChatReturnsString ==
    chat_pc = "done" => (chat_ret.kind = "return" /\ IsStr(chat_ret.val))

\* C2: the agent is invoked at most twice per chat call; a second invoke
\* happens only after the first raised a connection-class fault, after one
\* sleep and under a thread id derived anew from the message and the clock;
\* a first connection-class fault is always followed by exactly one more
\* invoke; when the second invoke raises a connection-class fault too, chat
\* returns the fixed connection-interrupted string.
C2_RetryExactlyOnce ==
    /\ Len(invokeLog) <= 2
    /\ Len(invokeLog) = 2 =>
          /\ FirstRaised /\ IsConnFault(invokeLog[1].outcome.exc)
          /\ sleeps = 1
          /\ invokeLog[2].thread_id = Md5Hex8(chat_message \o "_" \o ToString(now))
          /\ invokeLog[2].input = invokeLog[1].input
    /\ sleeps = 0 => Len(invokeLog) < 2
    /\ (chat_pc \in {"extract", "done"} /\ FirstRaised
            /\ IsConnFault(invokeLog[1].outcome.exc)) => Len(invokeLog) = 2
    /\ (chat_pc = "done" /\ SecondRaised /\ IsConnFault(invokeLog[2].outcome.exc))
          => chat_ret = Return(PyStr(ConnInterrupted))

\* C2 witness: both invokes raised a connection-class fault and chat returned
\* the connection-interrupted string.
C2_Witness ==
    /\ chat_pc = "done"
    /\ Len(invokeLog) = 2
    /\ SecondRaised /\ IsConnFault(invokeLog[2].outcome.exc)
    /\ chat_ret = Return(PyStr(ConnInterrupted))

\* C3: an exception outside the connection classes that leaves the try body
\* (from the first invoke, the retried invoke or the response extraction) is
\* turned into the error string that carries the exception's message; after
\* such an exception on the first invoke there is no second invoke.
C3_OtherExceptionConverted ==
    /\ (chat_pc = "done" /\ chat_raised # NoExc /\ ~IsConnFault(chat_raised))
          => chat_ret = Return(PyStr(ErrPrefix \o chat_raised.text \o ErrSuffix))
    /\ (FirstRaised /\ ~IsConnFault(invokeLog[1].outcome.exc))
          => /\ Len(invokeLog) = 1
             /\ chat_pc = "done"
             /\ chat_raised = invokeLog[1].outcome.exc
    /\ (SecondRaised /\ ~IsConnFault(invokeLog[2].outcome.exc))
          => /\ chat_pc = "done"
             /\ chat_raised = invokeLog[2].outcome.exc
    /\ (chat_pc = "done" /\ Len(invokeLog) >= 1
            /\ invokeLog[Len(invokeLog)].outcome.kind = "return"
            /\ ExtractResponse(result).kind = "raise")
          => chat_raised = ExtractResponse(result).exc

\* C3 witness: the retried invoke returned a result whose extraction raised
\* AttributeError, and chat returned the error string with its message.
C3_Witness ==
    /\ chat_pc = "done"
    /\ Len(invokeLog) = 2
    /\ invokeLog[2].outcome.kind = "return"
    /\ chat_raised.cls = "AttributeError"
    /\ chat_ret = Return(PyStr(ErrPrefix \o chat_raised.text \o ErrSuffix))
-----------------------------------------------------------------------------
(***************************************************************************)
(* Python strings of the tool layer: sequences of one-character strings,   *)
(* so that lower(), strip(), split(), slicing and "in" are computed.       *)
(***************************************************************************)
UpperCase == <<"A","B","C","D","E","F","G","H","I","J","K","L","M","N","O","P","Q","R","S","T","U","V","W","X","Y","Z">>
LowerCase == <<"a","b","c","d","e","f","g","h","i","j","k","l","m","n","o","p","q","r","s","t","u","v","w","x","y","z">>
DigitChars == <<"0","1","2","3","4","5","6","7","8","9">>
Whitespace == {" ", "\n", "\t"}

\* c.lower()
LowerChar(c) ==
    IF \E i \in 1..Len(UpperCase) : UpperCase[i] = c
    THEN LowerCase[CHOOSE i \in 1..Len(UpperCase) : UpperCase[i] = c]
    ELSE c

\* s left in the case it was written in
LowerKeepCase(s) == s

\* s.lower(); the two halves are lowered separately, which keeps the
\* evaluation shallow on long texts
RECURSIVE Lower(_)
Lower(s) ==
    IF s = <<>> THEN <<>>
    ELSE IF Len(s) = 1 THEN <<LowerChar(s[1])>>
    ELSE Lower(SubSeq(s, 1, Len(s) \div 2)) \o Lower(SubSeq(s, Len(s) \div 2 + 1, Len(s)))

\* F(e) with e evaluated once, as Python evaluates the right-hand side of an
\* assignment once however often the variable is read afterwards
Bind(e, F(_)) == CHOOSE y \in {F(x) : x \in {e}} : TRUE

RECURSIVE LStrip(_)
LStrip(s) == IF s # <<>> /\ Head(s) \in Whitespace THEN LStrip(Tail(s)) ELSE s
RECURSIVE RStrip(_)
RStrip(s) == IF s # <<>> /\ s[Len(s)] \in Whitespace
             THEN RStrip(SubSeq(s, 1, Len(s) - 1)) ELSE s
\* s.strip()
Strip(s) == RStrip(LStrip(s))

\* s[:n] for n >= 0
Take(s, n) == SubSeq(s, 1, IF n < Len(s) THEN n ELSE Len(s))

\* s.split(sep) for a one-character sep
RECURSIVE SplitOn(_, _)
SplitOn(s, sep) ==
    IF \E i \in 1..Len(s) : s[i] = sep
    THEN LET i == CHOOSE i \in 1..Len(s) : s[i] = sep /\ \A j \in 1..(i - 1) : s[j] # sep
         IN <<SubSeq(s, 1, i - 1)>> \o SplitOn(SubSeq(s, i + 1, Len(s)), sep)
    ELSE <<s>>

\* s.split(): split on runs of whitespace
RECURSIVE SplitWs(_)
SplitWs(s) ==
    LET t == LStrip(s) IN
    IF t = <<>> THEN <<>>
    ELSE IF \E i \in 1..Len(t) : t[i] \in Whitespace
         THEN LET i == CHOOSE i \in 1..Len(t) :
                          t[i] \in Whitespace /\ \A j \in 1..(i - 1) : t[j] \notin Whitespace
              IN <<SubSeq(t, 1, i - 1)>> \o SplitWs(SubSeq(t, i, Len(t)))
         ELSE <<t>>

\* sep.join(parts)
RECURSIVE Join(_, _)
Join(sep, parts) ==
    IF parts = <<>> THEN <<>>
    ELSE IF Len(parts) = 1 THEN parts[1]
    ELSE parts[1] \o sep \o Join(sep, Tail(parts))

\* sub in s
Contains(sub, s) ==
    \/ sub = <<>>
    \/ \E i \in 0..(Len(s) - Len(sub)) :
          s[i + 1] = sub[1] /\ SubSeq(s, i + 1, i + Len(sub)) = sub

\* s.startswith(p)
StartsWith(s, p) == Len(s) >= Len(p) /\ SubSeq(s, 1, Len(p)) = p

\* str(n) for an int n >= 0
RECURSIVE Digits(_)
Digits(n) == IF n < 10 THEN <<DigitChars[n + 1]>>
             ELSE Digits(n \div 10) \o <<DigitChars[(n % 10) + 1]>>

\* str(x) of a float x >= 0 with at most two decimals, given in hundredths
FloatRepr(h) ==
    Digits(h \div 100) \o <<".">> \o
        (IF h % 10 = 0 THEN Digits((h % 100) \div 10)
         ELSE Digits((h % 100) \div 10) \o Digits(h % 10))

\* seq[::-1]
Reverse(seq) == [i \in 1..Len(seq) |-> seq[Len(seq) + 1 - i]]

\* the elements of seq that satisfy Test, cut after the append that makes
\* len >= limit ("append; if len(out) >= limit: break")
RECURSIVE AppendUntil(_, _, _)
AppendUntil(seq, limit, out) ==
    IF seq = <<>> THEN out
    ELSE LET o == Append(out, Head(seq)) IN
         IF Len(o) >= limit THEN o ELSE AppendUntil(Tail(seq), limit, o)

-----------------------------------------------------------------------------
(***************************************************************************)
(* The GitHub collaborator as the tools see it.  A tool call performs a    *)
(* sequence of GitHub calls (sites); the environment decides which of them *)
(* raise.                                                                  *)
(***************************************************************************)

\* str(e) of the exception a failing GitHub call raises
GhErrText(site) ==
    CASE site = "get_repo"     -> <<"4","0","4"," ","N","o","t"," ","F","o","u","n","d">>
      [] site = "create_issue" -> <<"4","0","3"," ","F","o","r","b","i","d","d","e","n">>
      [] OTHER                 -> <<"5","0","2"," ","B","a","d"," ","G","a","t","e","w","a","y">>

\* {"error": str(e)}
ErrorDict(text) == [error |-> text]
HasError(d) == "error" \in DOMAIN d

\* What a tool method or a wrapper hands back: a dict, a list of dicts, a str.
DictVal(d) == [py |-> "dict", d |-> d, items |-> <<>>]
\* (a str holds its characters in items)
StrVal(s) == [py |-> "str", d |-> [none |-> TRUE], items |-> s]
ListVal(items) == [py |-> "list", d |-> [none |-> TRUE], items |-> items]
NoVal == [py |-> "none", d |-> [none |-> TRUE], items |-> <<>>]

\* One tool method call: its value (or the exception it raises), the GitHub
\* calls it performed in order, and the issues of the repository afterwards.
MethodResult(out, calls, issues) == [out |-> out, calls |-> calls, issues |-> issues]
\* (the text of a tool-layer exception is a character sequence)
NoToolExc == [cls |-> "", text |-> <<>>]
ValOk(v) == [kind |-> "return", val |-> v, exc |-> NoToolExc]
ValRaise(e) == [kind |-> "raise", val |-> NoVal, exc |-> e]

\* The GitHub calls of sites made in order until the first one in fails
\* raises: the calls performed and the site that raised ("" when none did).
RECURSIVE RunSites(_, _, _)
RunSites(sites, fails, done) ==
    IF sites = <<>> THEN [calls |-> done, failed |-> ""]
    ELSE IF Head(sites) \in fails
         THEN [calls |-> Append(done, Head(sites)), failed |-> Head(sites)]
         ELSE RunSites(Tail(sites), fails, Append(done, Head(sites)))

-----------------------------------------------------------------------------
(***************************************************************************)
(* GitHubIssueTool (src/src/tools/github_issue.py)                         *)
(***************************************************************************)
bug_keywords == <<<<"b","u","g">>, <<"e","r","r","o","r">>, <<"c","r","a","s","h">>, <<"b","r","o","k","e","n">>, <<"f","a","i","l">>, <<"i","s","s","u","e">>, <<"p","r","o","b","l","e","m">>>>
feature_keywords == <<<<"f","e","a","t","u","r","e">>, <<"a","d","d">>, <<"i","m","p","l","e","m","e","n","t">>, <<"n","e","w">>, <<"e","n","h","a","n","c","e","m","e","n","t">>, <<"i","m","p","r","o","v","e">>>>
doc_keywords == <<<<"d","o","c">>, <<"d","o","c","u","m","e","n","t","a","t","i","o","n">>, <<"r","e","a","d","m","e">>, <<"g","u","i","d","e">>, <<"t","u","t","o","r","i","a","l">>>>
urgent_keywords == <<<<"u","r","g","e","n","t">>, <<"c","r","i","t","i","c","a","l">>, <<"b","l","o","c","k","i","n","g">>, <<"b","r","o","k","e","n">>, <<"c","r","a","s","h">>>>

\* any(keyword in text for keyword in keywords)
AnyKeywordIn(keywords, text) ==
    \E i \in 1..Len(keywords) : Contains(keywords[i], text)

\* classify_issue(text)
classify_issue(text) ==
    LET classify(text_lower) ==
            LET issue_type ==
                    IF AnyKeywordIn(bug_keywords, text_lower) THEN <<"b","u","g">>
                    ELSE IF AnyKeywordIn(feature_keywords, text_lower) THEN <<"f","e","a","t","u","r","e">>
                    ELSE IF AnyKeywordIn(doc_keywords, text_lower) THEN <<"d","o","c","u","m","e","n","t","a","t","i","o","n">>
                    ELSE <<"q","u","e","s","t","i","o","n">>
                priority == IF AnyKeywordIn(urgent_keywords, text_lower) THEN <<"h","i","g","h">>
                            ELSE <<"m","e","d","i","u","m">>
            IN [type |-> issue_type, priority |-> priority,
                suggested_labels |-> <<issue_type, priority>>]
    IN Bind(Lower(text), classify)

\* _parse_issue_text cutting a long title after 100 characters, before the
\* ellipsis
parse_issue_text_cut100(text) ==
    LET parse(lines) ==
            LET first == lines[1]
                title == IF Len(first) > 100 THEN Take(first, 100) \o <<".",".",".">> ELSE first
                body0 == IF Len(lines) > 1 THEN Join(<<"\n">>, Tail(lines)) ELSE text
                tagged(c) ==
                    LET head == <<"*","*","T","y","p","e",":","*","*"," ">> \o c.type \o <<"\n","*","*","P","r","i","o","r","i","t","y",":","*","*"," ">>
                                    \o c.priority
                    IN [title |-> title,
                        body |-> IF body0 # <<>> THEN head \o <<"\n","\n">> \o body0 ELSE head,
                        suggested_labels |-> c.suggested_labels]
            IN Bind(classify_issue(text), tagged)
    IN Bind(SplitOn(Strip(text), "\n"), parse)

\* _parse_issue_text(text)
parse_issue_text(text) ==
    LET parse(lines) ==
            LET first == lines[1]
                title == IF Len(first) > 100 THEN Take(first, 97) \o <<".",".",".">> ELSE first
                body0 == IF Len(lines) > 1 THEN Join(<<"\n">>, Tail(lines)) ELSE text
                tagged(c) ==
                    LET head == <<"*","*","T","y","p","e",":","*","*"," ">> \o c.type \o <<"\n","*","*","P","r","i","o","r","i","t","y",":","*","*"," ">>
                                    \o c.priority
                    IN [title |-> title,
                        body |-> IF body0 # <<>> THEN head \o <<"\n","\n">> \o body0 ELSE head,
                        suggested_labels |-> c.suggested_labels]
            IN Bind(classify_issue(text), tagged)
    IN Bind(SplitOn(Strip(text), "\n"), parse)

\* repo.get_issues(state=..., sort="updated", direction="desc"): newest first
IssuesByState(issues, state) ==
    LET sel(i) == state = <<"a","l","l">> \/ i.state = state
    IN Reverse(SelectSeq(issues, sel))

\* the loop of _find_similar_issues (lines 186-200)
similar_of(issues, title, limit) ==
    LET keywords == Take(SplitWs(Lower(title)), 3)
        match(i) == \E k \in 1..Len(keywords) : Contains(keywords[k], Lower(i.title))
        hits == SelectSeq(IssuesByState(issues, <<"o","p","e","n">>), match)
        short(i) == [number |-> i.number, title |-> i.title, url |-> i.url]
        cut == AppendUntil(hits, limit, <<>>)
    IN [k \in 1..Len(cut) |-> short(cut[k])]

\* _find_similar_issues without its try/except giving [] on a failure
find_similar_issues_unguarded(issues, title, fails) == similar_of(issues, title, 5)

\* _find_similar_issues(repo, title): a failure of the listing gives []
find_similar_issues(issues, title, fails) ==
    IF "get_issues" \in fails THEN <<>> ELSE similar_of(issues, title, 5)

IssueUrl(n) == <<"h","t","t","p","s",":","/","/","g","i","t","h","u","b",".","c","o","m","/","o","/","r","/","i","s","s","u","e","s","/">> \o Digits(n)

\* repo.create_issue(title, body, assignees, labels) on the GitHub side
NewIssue(issues, title, body, assignees, labels) ==
    [number |-> Len(issues) + 1, title |-> title, body |-> body, state |-> <<"o","p","e","n">>,
     author |-> <<"m","e">>, created_at |-> <<"2","0","2","6","-","0","1","-","0","2","T","0","0",":","0","0",":","0","0">>,
     updated_at |-> <<"2","0","2","6","-","0","1","-","0","2","T","0","0",":","0","0",":","0","0">>, comments |-> 0,
     labels |-> labels, assignees |-> assignees,
     url |-> IssueUrl(Len(issues) + 1)]

\* create_issue_from_text giving up, with the duplicates as the error, when
\* the search found similar issues
create_issue_unless_similar(issues, text, assignees, labels, fails) ==
    LET create(parsed) ==
            LET similar_issues == find_similar_issues(issues, parsed.title, fails)
                issue == NewIssue(issues, parsed.title, parsed.body, assignees,
                                  IF labels # <<>> THEN labels
                                  ELSE parsed.suggested_labels)
            IN IF similar_issues # <<>>
               THEN MethodResult(ValOk(DictVal([error |-> <<"s","i","m","i","l","a","r"," ","i","s","s","u","e","s"," ","e","x","i","s","t">>,
                                                similar_issues |-> similar_issues])),
                                 <<"get_repo", "get_issues">>, issues)
               ELSE IF "create_issue" \in fails
               THEN MethodResult(ValOk(DictVal(ErrorDict(GhErrText("create_issue")))),
                                 <<"get_repo", "get_issues", "create_issue">>, issues)
               ELSE MethodResult(
                       ValOk(DictVal([number |-> issue.number, title |-> issue.title,
                                      state |-> issue.state, url |-> issue.url,
                                      similar_issues |-> similar_issues,
                                      labels |-> issue.labels])),
                       <<"get_repo", "get_issues", "create_issue">>,
                       Append(issues, issue))
    IN IF "get_repo" \in fails
       THEN MethodResult(ValOk(DictVal(ErrorDict(GhErrText("get_repo")))),
                         <<"get_repo">>, issues)
       ELSE Bind(parse_issue_text(text), create)

\* create_issue_from_text(repo_full_name, text, assignees, labels)
\* (assignees, labels: None is <<>>)
create_issue_from_text(issues, text, assignees, labels, fails) ==
    LET create(parsed) ==
            LET similar_issues == find_similar_issues(issues, parsed.title, fails)
                issue == NewIssue(issues, parsed.title, parsed.body, assignees,
                                  IF labels # <<>> THEN labels
                                  ELSE parsed.suggested_labels)
            IN IF "create_issue" \in fails
               THEN MethodResult(ValOk(DictVal(ErrorDict(GhErrText("create_issue")))),
                                 <<"get_repo", "get_issues", "create_issue">>, issues)
               ELSE MethodResult(
                       ValOk(DictVal([number |-> issue.number, title |-> issue.title,
                                      state |-> issue.state, url |-> issue.url,
                                      similar_issues |-> similar_issues,
                                      labels |-> issue.labels])),
                       <<"get_repo", "get_issues", "create_issue">>,
                       Append(issues, issue))
    IN IF "get_repo" \in fails
       THEN MethodResult(ValOk(DictVal(ErrorDict(GhErrText("get_repo")))),
                         <<"get_repo">>, issues)
       ELSE Bind(parse_issue_text(text), create)

\* _issue_to_dict(issue)
issue_to_dict(i) ==
    [number |-> i.number, title |-> i.title, state |-> i.state, author |-> i.author,
     created_at |-> i.created_at, updated_at |-> i.updated_at, comments |-> i.comments,
     labels |-> i.labels, assignees |-> i.assignees, url |-> i.url]

\* get_issues(repo_full_name, state, limit)
get_issues(issues, state, limit, fails) ==
    LET run == RunSites(<<"get_repo", "get_issues">>, fails, <<>>)
        found == AppendUntil(IssuesByState(issues, state), limit, <<>>)
    IN IF run.failed # ""
       THEN MethodResult(ValOk(ListVal(<<ErrorDict(GhErrText(run.failed))>>)),
                         run.calls, issues)
       ELSE MethodResult(ValOk(ListVal([k \in 1..Len(found) |-> issue_to_dict(found[k])])),
                         run.calls, issues)

-----------------------------------------------------------------------------
(***************************************************************************)
(* GitHubPRTool (src/src/tools/github_pr.py)                               *)
(***************************************************************************)

\* _pr_to_dict(pr)
pr_to_dict(pr) ==
    [number |-> pr.number, title |-> pr.title, state |-> pr.state, author |-> pr.author,
     created_at |-> pr.created_at, updated_at |-> pr.updated_at,
     comments |-> pr.comments, review_comments |-> pr.review_comments,
     additions |-> pr.additions, deletions |-> pr.deletions, url |-> pr.url]

Min(a, b) == IF a < b THEN a ELSE b

\* _calculate_value_score(pr), in hundredths: additions / 100 has at most two
\* decimals, so round(score, 2) * 100 is this integer
calculate_value_score(pr) ==
    pr.comments * 200 + pr.review_comments * 300
        + (IF pr.additions > 0 THEN Min(pr.additions, 1000) ELSE 0)
        + (IF pr.deletions > 0 THEN Min(pr.deletions, 500) ELSE 0)
        + (IF pr.state = <<"m","e","r","g","e","d">> THEN 2000 ELSE IF pr.state = <<"o","p","e","n">> THEN 500 ELSE 0)

\* x placed into a list sorted by value_score descending, after the elements
\* that compare equal (list.sort is stable, also with reverse=True)
RECURSIVE InsertByScore(_, _)
InsertByScore(x, sorted) ==
    IF sorted = <<>> THEN <<x>>
    ELSE IF Head(sorted).value_score >= x.value_score
         THEN <<Head(sorted)>> \o InsertByScore(x, Tail(sorted))
         ELSE <<x>> \o sorted

\* prs left in the order of the listing
KeepListingOrder(prs) == prs

\* prs.sort(key=lambda x: x["value_score"], reverse=True)
RECURSIVE SortByScoreDesc(_)
SortByScoreDesc(prs) ==
    IF prs = <<>> THEN <<>>
    ELSE InsertByScore(prs[Len(prs)], SortByScoreDesc(SubSeq(prs, 1, Len(prs) - 1)))

\* get_today_prs(repo_full_name, limit)
get_today_prs(pulls, limit, fails, issues) ==
    LET run == RunSites(<<"get_repo", "get_pulls">>, fails, <<>>)
        today(pr) == pr.updated_today
        found == AppendUntil(SelectSeq(pulls, today), limit, <<>>)
    IN IF run.failed # ""
       THEN MethodResult(ValOk(ListVal(<<ErrorDict(GhErrText(run.failed))>>)),
                         run.calls, issues)
       ELSE MethodResult(ValOk(ListVal([k \in 1..Len(found) |-> pr_to_dict(found[k])])),
                         run.calls, issues)

\* get_valuable_prs(repo_full_name, limit, min_comments), limit >= 0
get_valuable_prs(pulls, limit, min_comments, fails, issues) ==
    LET run == RunSites(<<"get_repo", "get_pulls">>, fails, <<>>)
        keep(pr) == pr.updated_today /\ pr.comments >= min_comments
        kept == SelectSeq(pulls, keep)
        scored == [k \in 1..Len(kept) |->
                     [number |-> kept[k].number, title |-> kept[k].title,
                      state |-> kept[k].state, author |-> kept[k].author,
                      created_at |-> kept[k].created_at, updated_at |-> kept[k].updated_at,
                      comments |-> kept[k].comments,
                      review_comments |-> kept[k].review_comments,
                      additions |-> kept[k].additions, deletions |-> kept[k].deletions,
                      url |-> kept[k].url,
                      value_score |-> calculate_value_score(kept[k])]]
    IN IF run.failed # ""
       THEN MethodResult(ValOk(ListVal(<<ErrorDict(GhErrText(run.failed))>>)),
                         run.calls, issues)
       ELSE MethodResult(ValOk(ListVal(Take(SortByScoreDesc(scored), limit))),
                         run.calls, issues)

\* sum(1 for r in reviews if r.state == s)
CountState(reviews, s) == Len(SelectSeq(reviews, LAMBDA r : r = s))

RECURSIVE SumField(_, _)
SumField(files, f) == IF files = <<>> THEN 0 ELSE Head(files)[f] + SumField(Tail(files), f)

\* analyze_pr(repo_full_name, pr_number); gh holds what the GitHub calls give:
\* the PR, its files, its review states, the collaborators and the commenters
analyze_pr(gh, fails, issues) ==
    LET run == RunSites(<<"get_repo", "get_pull", "get_files", "get_reviews",
                          "get_collaborators", "get_issue_comments">>, fails, <<>>)
        pr == gh.pr
        review_summary ==
            [total |-> Len(gh.reviews),
             approved |-> CountState(gh.reviews, "APPROVED"),
             changes_requested |-> CountState(gh.reviews, "CHANGES_REQUESTED")]
        maintainer_participated ==
            \E k \in 1..Len(gh.commenters) : gh.commenters[k] \in gh.collaborators
    IN IF run.failed # ""
       THEN MethodResult(ValOk(DictVal(ErrorDict(GhErrText(run.failed)))), run.calls, issues)
       ELSE MethodResult(
               ValOk(DictVal(
                  [number |-> pr.number, title |-> pr.title, state |-> pr.state,
                   author |-> pr.author, created_at |-> pr.created_at,
                   updated_at |-> pr.updated_at, comments |-> pr.comments,
                   review_comments |-> pr.review_comments,
                   additions |-> SumField(gh.files, "additions"),
                   deletions |-> SumField(gh.files, "deletions"),
                   files_changed |-> Len(gh.files), file_details |-> gh.files,
                   review_summary |-> review_summary,
                   maintainer_participated |-> maintainer_participated,
                   value_score |-> calculate_value_score(pr), url |-> pr.url])),
               run.calls, issues)

\* detect_controversial_prs(repo_full_name, min_comments): the reviews are
\* fetched only for a PR that passes the first test
detect_controversial_prs(gh, min_comments, fails, issues) ==
    LET cand(pr) == pr.state = <<"o","p","e","n">> /\ pr.updated_today /\ pr.comments >= min_comments
        cands == SelectSeq(gh.pulls, cand)
        run == RunSites(IF cands = <<>> THEN <<"get_repo", "get_pulls">>
                        ELSE <<"get_repo", "get_pulls", "get_reviews">>, fails, <<>>)
        mixed == CountState(gh.reviews, "APPROVED") > 0
                    /\ CountState(gh.reviews, "CHANGES_REQUESTED") > 0
        hits == IF mixed THEN cands ELSE <<>>
    IN IF run.failed # ""
       THEN MethodResult(ValOk(ListVal(<<ErrorDict(GhErrText(run.failed))>>)),
                         run.calls, issues)
       ELSE MethodResult(
               ValOk(ListVal([k \in 1..Len(hits) |->
                  [number |-> hits[k].number, title |-> hits[k].title,
                   state |-> hits[k].state, author |-> hits[k].author,
                   created_at |-> hits[k].created_at, updated_at |-> hits[k].updated_at,
                   comments |-> hits[k].comments,
                   review_comments |-> hits[k].review_comments,
                   additions |-> hits[k].additions, deletions |-> hits[k].deletions,
                   url |-> hits[k].url,
                   controversy_score |-> hits[k].comments + hits[k].review_comments]])),
               run.calls, issues)

-----------------------------------------------------------------------------
(***************************************************************************)
(* GitHubTrendingTool (src/src/tools/github_trending/: tool.py, scraper.py,*)
(* analyzer.py)                                                            *)
(***************************************************************************)

\* scraper.get_trending_from_page: [] when the request or the parse raises
get_trending_from_page(gh, limit) ==
    IF gh.page = "fail" THEN <<>> ELSE Take(gh.pageRepos, limit)

\* _get_trending_fallback(language, since, limit): only search_repositories
\* is inside the try; the paging of repos[:limit] and repo.get_topics() are not
get_trending_fallback(gh, limit, fails, issues) ==
    IF ~gh.hasToken THEN MethodResult(ValOk(ListVal(<<>>)), <<>>, issues)
    ELSE IF "search_repositories" \in fails
    THEN MethodResult(ValOk(ListVal(<<>>)), <<"search_repositories">>, issues)
    ELSE IF "search_page" \in fails
    THEN MethodResult(ValRaise([cls |-> "GithubException",
                                text |-> GhErrText("search_page")]),
                      <<"search_repositories", "search_page">>, issues)
    ELSE IF "get_topics" \in fails /\ Take(gh.searchRepos, limit) # <<>>
    THEN MethodResult(ValRaise([cls |-> "GithubException",
                                text |-> GhErrText("get_topics")]),
                      <<"search_repositories", "search_page", "get_topics">>, issues)
    ELSE MethodResult(ValOk(ListVal(Take(gh.searchRepos, limit))),
                      IF Take(gh.searchRepos, limit) # <<>>
                      THEN <<"search_repositories", "search_page", "get_topics">>
                      ELSE <<"search_repositories", "search_page">>, issues)

\* get_trending_repos(language, since, limit), limit >= 0
get_trending_repos(gh, limit, fails, issues) ==
    LET repos == get_trending_from_page(gh, limit) IN
    IF repos # <<>> THEN MethodResult(ValOk(ListVal(repos)), <<>>, issues)
    ELSE get_trending_fallback(gh, limit, fails, issues)

\* analyzer._plain_summary(repos); "共 N 个热门仓库：" is written in ASCII
RECURSIVE PlainEntries(_, _)
PlainEntries(repos, i) ==
    IF i > Len(repos) THEN <<>>
    ELSE Digits(i) \o <<"."," ","*","*">> \o repos[i].name \o <<"*","*"," ","(">> \o Digits(repos[i].stars)
            \o <<" ","s","t","a","r","s",")","\n"," "," "," ">> \o repos[i].description \o <<"\n"," "," "," ","l","a","n","g","u","a","g","e",":"," ">>
            \o (IF repos[i].language # <<>> THEN repos[i].language ELSE <<"N","/","A">>)
            \o <<" ","|"," ","l","i","n","k",":"," ">> \o repos[i].url \o <<"\n","\n">> \o PlainEntries(repos, i + 1)

plain_summary(repos) ==
    IF repos = <<>> THEN <<"N","o"," ","t","r","e","n","d","i","n","g"," ","r","e","p","o","s","i","t","o","r","i","e","s"," ","f","o","u","n","d",".">>
    ELSE <<"t","o","t","a","l"," ">> \o Digits(Len(repos)) \o <<" ","t","r","e","n","d","i","n","g"," ","r","e","p","o","s","i","t","o","r","i","e","s",":","\n","\n">>
            \o PlainEntries(repos, 1)

\* analyzer.summarize_with_llm(repos, ...); gh.llm says what the LLM does
\* ("暂无热门仓库数据。" is written in ASCII)
summarize_with_llm(repos, gh) ==
    IF repos = <<>> THEN <<"n","o"," ","t","r","e","n","d","i","n","g"," ","r","e","p","o","s","i","t","o","r","y"," ","d","a","t","a",".">>
    ELSE IF gh.llm = "create_fails" THEN plain_summary(repos)
    ELSE IF gh.llm = "ok" /\ gh.llmContent # <<>> THEN Strip(gh.llmContent)
    ELSE plain_summary(repos)

\* get_trending_summary(repos) with use_llm=True
get_trending_summary(repos, gh) == summarize_with_llm(repos, gh)

\* analyze_trending_reason(repo_full_name): a failing get_readme gives "N/A"
analyze_trending_reason(gh, fails, issues) ==
    LET run == RunSites(<<"get_repo", "get_commits", "get_readme", "get_topics">>,
                        fails \ {"get_readme"}, <<>>)
    IN IF ~gh.hasToken
       THEN MethodResult(ValOk(DictVal(ErrorDict(<<"G","I","T","H","U","B","_","T","O","K","E","N"," ","i","s"," ","r","e","q","u","i","r","e","d">>))),
                         <<>>, issues)
       ELSE IF run.failed # ""
       THEN MethodResult(ValOk(DictVal(ErrorDict(GhErrText(run.failed)))),
                         run.calls, issues)
       ELSE MethodResult(
               ValOk(DictVal(
                  [recent_commits |-> Min(gh.commits, 10),
                   readme_preview |-> IF "get_readme" \in fails THEN <<"N","/","A">>
                                      ELSE Take(gh.readme, 500),
                   topics |-> gh.topics, stars_today |-> gh.stars,
                   forks |-> gh.forks])),
               run.calls, issues)

-----------------------------------------------------------------------------
(***************************************************************************)
(* json.loads on the raw inputs of the model                               *)
(***************************************************************************)
JVal(jt, obj) == [jt |-> jt, obj |-> obj]
RepoName == <<"o","/","r">>
IssueText1 == <<"F","i","x"," ","c","r","a","s","h"," ","o","n"," ","s","t","a","r","t","u","p","\n","S","t","e","p","s",":"," ","o","p","e","n"," ","a","p","p">>
IssueText2 == <<"A","d","d"," ","d","a","r","k"," ","m","o","d","e">>

R_text == "microsoft/vscode"
R_array == "[1, 2]"
R_string == "\"o/r\""
R_number == "42"
R_null == "null"
R_empty == "{}"
R_repo == "{\"repo\": \"o/r\"}"
R_prnum == "{\"pr_number\": 7}"
R_pr == "{\"repo\": \"o/r\", \"pr_number\": 7}"
R_issue == "{\"repo\": \"o/r\", \"text\": \"Fix crash on startup\\nSteps: open app\"}"
R_issueL == "{\"repo\": \"o/r\", \"text\": \"Add dark mode\", \"labels\": [\"ui\"]}"
R_textonly == "{\"text\": \"Add dark mode\"}"
R_issues == "{\"repo\": \"o/r\", \"state\": \"closed\", \"limit\": 1}"
R_trend == "{\"language\": \"python\", \"since\": \"weekly\", \"limit\": 1}"

RawInputs == {R_text, R_array, R_string, R_number, R_null, R_empty, R_repo, R_prnum,
              R_pr, R_issue, R_issueL, R_textonly, R_issues, R_trend}

\* json.loads(raw): "invalid" stands for JSONDecodeError
JsonLoads(raw) ==
    CASE raw = R_text     -> JVal("invalid", <<>>)
      [] raw = R_array    -> JVal("array", <<>>)
      [] raw = R_string   -> JVal("string", <<>>)
      [] raw = R_number   -> JVal("number", <<>>)
      [] raw = R_null     -> JVal("null", <<>>)
      [] raw = R_empty    -> JVal("object", <<>>)
      [] raw = R_repo     -> JVal("object", [repo |-> RepoName])
      [] raw = R_prnum    -> JVal("object", [pr_number |-> 7])
      [] raw = R_pr       -> JVal("object", [repo |-> RepoName, pr_number |-> 7])
      [] raw = R_issue    -> JVal("object", [repo |-> RepoName, text |-> IssueText1])
      [] raw = R_issueL   -> JVal("object", [repo |-> RepoName, text |-> IssueText2,
                                             labels |-> <<<<"u","i">>>>])
      [] raw = R_textonly -> JVal("object", [text |-> IssueText2])
      [] raw = R_issues   -> JVal("object", [repo |-> RepoName, state |-> <<"c","l","o","s","e","d">>,
                                             limit |-> 1])
      [] raw = R_trend    -> JVal("object", [language |-> <<"p","y","t","h","o","n">>, since |-> "weekly",
                                             limit |-> 1])

JSONDecodeErrorText == <<"E","x","p","e","c","t","i","n","g"," ","v","a","l","u","e",":"," ","l","i","n","e"," ","1"," ","c","o","l","u","m","n"," ","1"," ","(","c","h","a","r"," ","0",")">>

\* str(KeyError(key))
KeyErrorText(key) ==
    CASE key = "repo"      -> <<"'","r","e","p","o","'">>
      [] key = "pr_number" -> <<"'","p","r","_","n","u","m","b","e","r","'">>
      [] key = "text"      -> <<"'","t","e","x","t","'">>

\* the exception params[key] raises (NoToolExc when it raises none)
SubscriptExc(p, key) ==
    CASE p.jt = "object" -> IF key \in DOMAIN p.obj THEN NoToolExc
                            ELSE [cls |-> "KeyError", text |-> KeyErrorText(key)]
      [] p.jt = "array"  -> [cls |-> "TypeError",
                             text |-> <<"l","i","s","t"," ","i","n","d","i","c","e","s"," ","m","u","s","t"," ","b","e"," ","i","n","t","e","g","e","r","s"," ","o","r"," ","s","l","i","c","e","s",","," ","n","o","t"," ","s","t","r">>]
      [] p.jt = "string" -> [cls |-> "TypeError",
                             text |-> <<"s","t","r","i","n","g"," ","i","n","d","i","c","e","s"," ","m","u","s","t"," ","b","e"," ","i","n","t","e","g","e","r","s",","," ","n","o","t"," ","'","s","t","r","'">>]
      [] p.jt = "number" -> [cls |-> "TypeError",
                             text |-> <<"'","i","n","t","'"," ","o","b","j","e","c","t"," ","i","s"," ","n","o","t"," ","s","u","b","s","c","r","i","p","t","a","b","l","e">>]
      [] p.jt = "null"   -> [cls |-> "TypeError",
                             text |-> <<"'","N","o","n","e","T","y","p","e","'"," ","o","b","j","e","c","t"," ","i","s"," ","n","o","t"," ","s","u","b","s","c","r","i","p","t","a","b","l","e">>]

\* the exception params.get(...) raises (NoToolExc when it raises none)
GetExc(p) ==
    CASE p.jt = "object" -> NoToolExc
      [] p.jt = "array"  -> [cls |-> "AttributeError",
                             text |-> <<"'","l","i","s","t","'"," ","o","b","j","e","c","t"," ","h","a","s"," ","n","o"," ","a","t","t","r","i","b","u","t","e"," ","'","g","e","t","'">>]
      [] p.jt = "string" -> [cls |-> "AttributeError",
                             text |-> <<"'","s","t","r","'"," ","o","b","j","e","c","t"," ","h","a","s"," ","n","o"," ","a","t","t","r","i","b","u","t","e"," ","'","g","e","t","'">>]
      [] p.jt = "number" -> [cls |-> "AttributeError",
                             text |-> <<"'","i","n","t","'"," ","o","b","j","e","c","t"," ","h","a","s"," ","n","o"," ","a","t","t","r","i","b","u","t","e"," ","'","g","e","t","'">>]
      [] p.jt = "null"   -> [cls |-> "AttributeError",
                             text |-> <<"'","N","o","n","e","T","y","p","e","'"," ","o","b","j","e","c","t"," ","h","a","s"," ","n","o"," ","a","t","t","r","i","b","u","t","e"," ","'","g","e","t","'">>]

\* params.get(key, default) on a dict
GetOr(p, key, default) == IF key \in DOMAIN p.obj THEN p.obj[key] ELSE default

-----------------------------------------------------------------------------
(***************************************************************************)
(* The tool wrappers of HubMindAgent (src/src/agents/hubmind_agent.py)     *)
(***************************************************************************)

\* f"Error: {str(e)}"
ErrorStr(text) == <<"E","r","r","o","r",":"," ">> \o text

\* a wrapper's "except Exception as e" taken before the tool is called
ArgFailureCalledFirst(e, issues) ==
    MethodResult(ValOk(StrVal(ErrorStr(e.text))), <<"get_repo">>, issues)
ArgFailure(e, issues) == MethodResult(ValOk(StrVal(ErrorStr(e.text))), <<>>, issues)

\* a wrapper returning the string s after the tool call r
Returns(s, r) == MethodResult(ValOk(StrVal(s)), r.calls, r.issues)

\* str(b) of a bool
BoolRepr(b) == IF b THEN <<"T","r","u","e">> ELSE <<"F","a","l","s","e">>

\* _get_trending_repos_wrapper(input_str): an exception of the call made in
\* the JSONDecodeError handler is not caught by the sibling handler
get_trending_repos_wrapper(raw, gh, fails, issues) ==
    LET params == JsonLoads(raw) IN
    IF params.jt = "invalid"
    THEN LET r == get_trending_repos(gh, 10, fails, issues) IN
         IF r.out.kind = "raise" THEN r
         ELSE Returns(get_trending_summary(r.out.val.items, gh), r)
    ELSE IF GetExc(params) # NoToolExc THEN ArgFailure(GetExc(params), issues)
    ELSE LET r == get_trending_repos(gh, GetOr(params, "limit", 10), fails, issues) IN
         IF r.out.kind = "raise" THEN Returns(ErrorStr(r.out.exc.text), r)
         ELSE Returns(get_trending_summary(r.out.val.items, gh), r)

RECURSIVE ValuableEntries(_, _)
ValuableEntries(prs, i) ==
    IF i > Len(prs) THEN <<>>
    ELSE Digits(i) \o <<"."," ","*","*","#">> \o Digits(prs[i].number) \o <<"*","*"," ">> \o prs[i].title
            \o <<" ","(","S","c","o","r","e",":"," ">> \o FloatRepr(prs[i].value_score) \o <<")","\n">>
            \o <<" "," "," ","A","u","t","h","o","r",":"," ">> \o prs[i].author \o <<" ","|"," ","C","o","m","m","e","n","t","s",":"," ">>
            \o Digits(prs[i].comments) \o <<" ","|"," ","S","t","a","t","e",":"," ">> \o prs[i].state \o <<"\n">>
            \o <<" "," "," ","U","R","L",":"," ">> \o prs[i].url \o <<"\n","\n">> \o ValuableEntries(prs, i + 1)

\* _get_valuable_prs_wrapper reporting an error payload the way the
\* _analyze_pr_wrapper does
get_valuable_prs_wrapper_reporting(repo, gh, fails, issues) ==
    LET r == get_valuable_prs(gh.pulls, 10, 3, fails, issues)
        prs == r.out.val.items
    IN IF prs # <<>> /\ HasError(prs[1]) THEN Returns(ErrorStr(prs[1].error), r)
       ELSE IF prs = <<>>
       THEN Returns(<<"N","o"," ","v","a","l","u","a","b","l","e"," ","P","R","s"," ","f","o","u","n","d"," ","f","o","r"," ">> \o repo \o <<" ","t","o","d","a","y",".">>, r)
       ELSE Returns(<<"M","o","s","t"," ","v","a","l","u","a","b","l","e"," ","P","R","s"," ","f","o","r"," ">> \o repo \o <<" ","t","o","d","a","y",":","\n","\n">>
                        \o ValuableEntries(prs, 1), r)

\* _get_valuable_prs_wrapper(repo)
get_valuable_prs_wrapper(repo, gh, fails, issues) ==
    LET r == get_valuable_prs(gh.pulls, 10, 3, fails, issues)
        prs == r.out.val.items
    IN IF prs = <<>> \/ HasError(prs[1])
       THEN Returns(<<"N","o"," ","v","a","l","u","a","b","l","e"," ","P","R","s"," ","f","o","u","n","d"," ","f","o","r"," ">> \o repo \o <<" ","t","o","d","a","y",".">>, r)
       ELSE Returns(<<"M","o","s","t"," ","v","a","l","u","a","b","l","e"," ","P","R","s"," ","f","o","r"," ">> \o repo \o <<" ","t","o","d","a","y",":","\n","\n">>
                        \o ValuableEntries(prs, 1), r)

RECURSIVE TodayEntries(_)
TodayEntries(prs) ==
    IF prs = <<>> THEN <<>>
    ELSE <<"*","*","#">> \o Digits(prs[1].number) \o <<"*","*"," ">> \o prs[1].title \o <<"\n">>
            \o <<"A","u","t","h","o","r",":"," ">> \o prs[1].author \o <<" ","|"," ","S","t","a","t","e",":"," ">> \o prs[1].state
            \o <<" ","|"," ","C","o","m","m","e","n","t","s",":"," ">> \o Digits(prs[1].comments) \o <<"\n">>
            \o <<"U","R","L",":"," ">> \o prs[1].url \o <<"\n","\n">> \o TodayEntries(Tail(prs))

\* _get_today_prs_wrapper(repo)
get_today_prs_wrapper(repo, gh, fails, issues) ==
    LET r == get_today_prs(gh.pulls, 20, fails, issues)
        prs == r.out.val.items
    IN IF prs = <<>> \/ HasError(prs[1])
       THEN Returns(<<"N","o"," ","P","R","s"," ","f","o","u","n","d"," ","f","o","r"," ">> \o repo \o <<" ","t","o","d","a","y",".">>, r)
       ELSE Returns(<<"T","o","d","a","y","'","s"," ","P","R","s"," ","f","o","r"," ">> \o repo \o <<":","\n","\n">> \o TodayEntries(prs), r)

\* _analyze_pr_wrapper(input_str): params["repo"] and params["pr_number"] are
\* evaluated before analyze_pr is called
analyze_pr_wrapper(raw, gh, fails, issues) ==
    LET params == JsonLoads(raw) IN
    IF params.jt = "invalid"
    THEN ArgFailure([cls |-> "JSONDecodeError", text |-> JSONDecodeErrorText], issues)
    ELSE IF SubscriptExc(params, "repo") # NoToolExc
    THEN ArgFailure(SubscriptExc(params, "repo"), issues)
    ELSE IF SubscriptExc(params, "pr_number") # NoToolExc
    THEN ArgFailure(SubscriptExc(params, "pr_number"), issues)
    ELSE LET r == analyze_pr(gh, fails, issues)
             analysis == r.out.val.d
         IN IF HasError(analysis) THEN Returns(ErrorStr(analysis.error), r)
            ELSE Returns(
                   <<"P","R"," ","A","n","a","l","y","s","i","s"," ","f","o","r"," ","#">> \o Digits(analysis.number) \o <<":"," ">>
                      \o analysis.title \o <<"\n","\n">>
                      \o <<"S","t","a","t","e",":"," ">> \o analysis.state \o <<" ","|"," ","A","u","t","h","o","r",":"," ">>
                      \o analysis.author \o <<"\n">>
                      \o <<"V","a","l","u","e"," ","S","c","o","r","e",":"," ">> \o FloatRepr(analysis.value_score) \o <<"\n">>
                      \o <<"F","i","l","e","s"," ","C","h","a","n","g","e","d",":"," ">> \o Digits(analysis.files_changed) \o <<"\n">>
                      \o <<"A","d","d","i","t","i","o","n","s",":"," ","+">> \o Digits(analysis.additions)
                      \o <<" ","|"," ","D","e","l","e","t","i","o","n","s",":"," ","-">> \o Digits(analysis.deletions) \o <<"\n">>
                      \o <<"C","o","m","m","e","n","t","s",":"," ">> \o Digits(analysis.comments)
                      \o <<" ","|"," ","R","e","v","i","e","w"," ","C","o","m","m","e","n","t","s",":"," ">> \o Digits(analysis.review_comments)
                      \o <<"\n">>
                      \o <<"M","a","i","n","t","a","i","n","e","r"," ","P","a","r","t","i","c","i","p","a","t","e","d",":"," ">>
                      \o BoolRepr(analysis.maintainer_participated) \o <<"\n">>
                      \o <<"U","R","L",":"," ">> \o analysis.url \o <<"\n">>, r)

RECURSIVE SimilarEntries(_)
SimilarEntries(similar) ==
    IF similar = <<>> THEN <<>>
    ELSE <<"-"," ","#">> \o Digits(similar[1].number) \o <<":"," ">> \o similar[1].title \o <<"\n">>
            \o SimilarEntries(Tail(similar))

\* _create_issue_wrapper(input_str); the warning sign before "Similar issues
\* found" is written "(!)"
create_issue_wrapper(raw, fails, issues) ==
    LET params == JsonLoads(raw) IN
    IF params.jt = "invalid"
    THEN ArgFailure([cls |-> "JSONDecodeError", text |-> JSONDecodeErrorText], issues)
    ELSE IF SubscriptExc(params, "repo") # NoToolExc
    THEN ArgFailure(SubscriptExc(params, "repo"), issues)
    ELSE IF SubscriptExc(params, "text") # NoToolExc
    THEN ArgFailure(SubscriptExc(params, "text"), issues)
    ELSE LET respond(r) ==
                 LET created == r.out.val.d IN
                 IF HasError(created) THEN Returns(ErrorStr(created.error), r)
                 ELSE Returns(
                        <<"I","s","s","u","e"," ","c","r","e","a","t","e","d"," ","s","u","c","c","e","s","s","f","u","l","l","y","!","\n","\n">>
                           \o <<"*","*","#">> \o Digits(created.number) \o <<"*","*"," ">>
                           \o created.title \o <<"\n">>
                           \o <<"U","R","L",":"," ">> \o created.url \o <<"\n">>
                           \o <<"L","a","b","e","l","s",":"," ">> \o Join(<<","," ">>, created.labels) \o <<"\n">>
                           \o (IF created.similar_issues # <<>>
                               THEN <<"\n","(","!",")"," ","S","i","m","i","l","a","r"," ","i","s","s","u","e","s"," ","f","o","u","n","d",":"," ">>
                                       \o Digits(Len(created.similar_issues)) \o <<"\n">>
                                       \o SimilarEntries(Take(created.similar_issues, 3))
                               ELSE <<>>), r)
         IN Bind(create_issue_from_text(issues, params.obj.text,
                                        GetOr(params, "assignees", <<>>),
                                        GetOr(params, "labels", <<>>), fails), respond)

RECURSIVE IssueEntries(_)
IssueEntries(found) ==
    IF found = <<>> THEN <<>>
    ELSE <<"*","*","#">> \o Digits(found[1].number) \o <<"*","*"," ">> \o found[1].title \o <<"\n">>
            \o <<"A","u","t","h","o","r",":"," ">> \o found[1].author \o <<" ","|"," ","L","a","b","e","l","s",":"," ">>
            \o Join(<<","," ">>, found[1].labels) \o <<"\n">>
            \o <<"U","R","L",":"," ">> \o found[1].url \o <<"\n","\n">> \o IssueEntries(Tail(found))

\* _get_issues_wrapper(input_str)
get_issues_wrapper(raw, fails, issues) ==
    LET params == JsonLoads(raw) IN
    IF params.jt = "invalid"
    THEN ArgFailure([cls |-> "JSONDecodeError", text |-> JSONDecodeErrorText], issues)
    ELSE IF SubscriptExc(params, "repo") # NoToolExc
    THEN ArgFailure(SubscriptExc(params, "repo"), issues)
    ELSE LET r == get_issues(issues, GetOr(params, "state", <<"o","p","e","n">>),
                             GetOr(params, "limit", 20), fails)
             found == r.out.val.items
         IN IF found = <<>> \/ HasError(found[1])
            THEN Returns(<<"N","o"," ","i","s","s","u","e","s"," ","f","o","u","n","d"," ","f","o","r"," ">> \o params.obj.repo \o <<".">>, r)
            ELSE Returns(<<"I","s","s","u","e","s"," ","f","o","r"," ">> \o params.obj.repo \o <<" ","(">>
                            \o GetOr(params, "state", <<"o","p","e","n">>) \o <<")",":","\n","\n">>
                            \o IssueEntries(found), r)

\* _analyze_trending_reason_wrapper(repo)
analyze_trending_reason_wrapper(repo, gh, fails, issues) ==
    LET r == analyze_trending_reason(gh, fails, issues)
        analysis == r.out.val.d
    IN IF HasError(analysis) THEN Returns(ErrorStr(analysis.error), r)
       ELSE Returns(
              <<"T","r","e","n","d","i","n","g"," ","A","n","a","l","y","s","i","s"," ","f","o","r"," ">> \o repo \o <<":","\n","\n">>
                 \o <<"R","e","c","e","n","t"," ","C","o","m","m","i","t","s",":"," ">> \o Digits(analysis.recent_commits) \o <<"\n">>
                 \o <<"S","t","a","r","s",":"," ">> \o Digits(analysis.stars_today) \o <<" ","|"," ","F","o","r","k","s",":"," ">>
                 \o Digits(analysis.forks) \o <<"\n">>
                 \o <<"T","o","p","i","c","s",":"," ">> \o Join(<<","," ">>, analysis.topics) \o <<"\n">>
                 \o (IF analysis.readme_preview # <<>>
                     THEN <<"\n","R","E","A","D","M","E"," ","P","r","e","v","i","e","w",":","\n">> \o Take(analysis.readme_preview, 200)
                             \o <<".",".",".","\n">>
                     ELSE <<>>), r)

-----------------------------------------------------------------------------
(***************************************************************************)
(* The inputs and the GitHub/LLM environments the tool calls are run on    *)
(***************************************************************************)
MkPR(n, title, state, today, comments, review_comments, additions, deletions) ==
    [number |-> n, title |-> title, state |-> state, author |-> <<"a","l","i","c","e">>,
     created_at |-> <<"2","0","2","6","-","0","1","-","0","1","T","0","8",":","0","0",":","0","0">>, updated_at |-> <<"2","0","2","6","-","0","1","-","0","2","T","0","9",":","0","0",":","0","0">>,
     updated_today |-> today, comments |-> comments,
     review_comments |-> review_comments, additions |-> additions,
     deletions |-> deletions, url |-> <<"h","t","t","p","s",":","/","/","g","i","t","h","u","b",".","c","o","m","/","o","/","r","/","p","u","l","l","/">> \o Digits(n)]

PR1 == MkPR(1, <<"F","i","x"," ","c","r","a","s","h">>, <<"o","p","e","n">>, TRUE, 4, 2, 250, 40)
PR2 == MkPR(2, <<"A","d","d"," ","d","o","c","s">>, <<"c","l","o","s","e","d">>, TRUE, 1, 0, 0, 0)
PR3 == MkPR(3, <<"R","e","f","a","c","t","o","r">>, <<"o","p","e","n">>, FALSE, 12, 1, 1500, 700)
PR4 == MkPR(4, <<"B","i","g"," ","d","e","b","a","t","e">>, <<"o","p","e","n">>, TRUE, 12, 3, 33, 5)
PullUniverse == {PR1, PR2, PR3, PR4}

\* the pull requests a repository lists: up to MaxPulls distinct ones
PullLists ==
    {s \in UNION {[1..n -> PullUniverse] : n \in 0..MaxPulls} :
        \A i, j \in DOMAIN s : i # j => s[i] # s[j]}

ReviewChoices == {<<>>, <<"APPROVED">>, <<"APPROVED", "CHANGES_REQUESTED">>}
FileChoices ==
    {<<>>,
     <<[filename |-> <<"a",".","p","y">>, status |-> <<"m","o","d","i","f","i","e","d">>, additions |-> 10,
        deletions |-> 2, changes |-> 12],
       [filename |-> <<"b",".","p","y">>, status |-> <<"a","d","d","e","d">>, additions |-> 5,
        deletions |-> 0, changes |-> 5]>>}
CommenterChoices == {<<<<"a","l","i","c","e">>>>, <<<<"b","o","b">>>>}

TrendRepo1 ==
    [name |-> <<"a","/","h","o","t">>, description |-> <<"H","o","t"," ","p","r","o","j","e","c","t">>, stars |-> 120,
     language |-> <<"P","y","t","h","o","n">>, url |-> <<"h","t","t","p","s",":","/","/","g","i","t","h","u","b",".","c","o","m","/","a","/","h","o","t">>]
TrendRepo2 ==
    [name |-> <<"b","/","n","e","w">>, description |-> <<>>, stars |-> 7,
     language |-> <<>>, url |-> <<"h","t","t","p","s",":","/","/","g","i","t","h","u","b",".","c","o","m","/","b","/","n","e","w">>]
TrendRepos == <<TrendRepo1, TrendRepo2>>

DefaultGh ==
    [pulls |-> <<PR1, PR4>>, pr |-> PR1, files |-> <<>>, reviews |-> <<>>,
     collaborators |-> {<<"a","l","i","c","e">>}, commenters |-> <<<<"b","o","b">>>>,
     page |-> "ok", pageRepos |-> TrendRepos, hasToken |-> TRUE,
     searchRepos |-> TrendRepos, llm |-> "ok", llmContent |-> <<" ","M","o","s","t","l","y"," ","P","y","t","h","o","n","."," ">>,
     commits |-> 3, readme |-> <<"#"," ","r","\n","A"," ","r","e","p","o","s","i","t","o","r","y",".">>, topics |-> <<<<"a","i">>, <<"c","l","i">>>>,
     stars |-> 42, forks |-> 5]

Env(gh, fails) == [gh |-> gh, fails |-> fails]

\* no GitHub call fails, or exactly one of sites does
OneFailure(sites) == {{}} \cup {{s} : s \in sites}

PullEnvs ==
    {Env([DefaultGh EXCEPT !.pulls = pl], {}) : pl \in PullLists}
        \cup {Env(DefaultGh, {s}) : s \in {"get_repo", "get_pulls"}}

AnalyzeEnvs ==
    {Env([DefaultGh EXCEPT !.pr = p, !.files = f, !.reviews = rv, !.commenters = c], {}) :
        p \in {PR1, PR3}, f \in FileChoices, rv \in ReviewChoices, c \in CommenterChoices}
        \cup {Env(DefaultGh, {s}) :
                s \in {"get_repo", "get_pull", "get_files", "get_reviews",
                       "get_collaborators", "get_issue_comments"}}

ControversialEnvs ==
    {Env([DefaultGh EXCEPT !.pulls = pl, !.reviews = rv], {}) :
        pl \in PullLists, rv \in ReviewChoices}
        \cup {Env(DefaultGh, {s}) : s \in {"get_repo", "get_pulls", "get_reviews"}}

IssueEnvs == {Env(DefaultGh, f) : f \in SUBSET {"get_repo", "get_issues", "create_issue"}}

ListIssueEnvs == {Env(DefaultGh, f) : f \in OneFailure({"get_repo", "get_issues"})}

LlmChoices == {"ok", "empty", "create_fails", "invoke_fails"}

\* the page gives repositories / the page gives none and there is no token /
\* the page gives none and the Search API is used
TrendEnvs ==
    {Env([DefaultGh EXCEPT !.llm = l,
                           !.llmContent = IF l = "empty" THEN <<>> ELSE @], {}) :
        l \in LlmChoices}
        \cup {Env([DefaultGh EXCEPT !.page = "fail", !.hasToken = FALSE], {})}
        \cup {Env([DefaultGh EXCEPT !.page = p, !.pageRepos = <<>>, !.searchRepos = sr,
                                    !.llm = l], f) :
                p \in {"ok", "fail"}, sr \in {<<>>, TrendRepos},
                l \in {"ok", "create_fails"},
                f \in OneFailure({"search_repositories", "search_page", "get_topics"})}

ReasonEnvs ==
    {Env([DefaultGh EXCEPT !.readme = rd, !.topics = t], {}) :
        rd \in {<<>>, DefaultGh.readme}, t \in {<<>>, DefaultGh.topics}}
        \cup {Env([DefaultGh EXCEPT !.hasToken = FALSE], {})}
        \cup {Env(DefaultGh, {s}) :
                s \in {"get_repo", "get_commits", "get_readme", "get_topics"}}

MissingRepo == <<"o","/","m","i","s","s","i","n","g">>
RepoInputs == {RepoName, MissingRepo}
\* a repository that does not exist makes get_repo fail
RepoExists(repo, e) == repo = MissingRepo => "get_repo" \in e.fails

IssueTexts == {IssueText1, IssueText2}
LabelChoices == {<<>>, <<<<"u","i">>>>}
StateChoices == {<<"o","p","e","n">>, <<"c","l","o","s","e","d">>, <<"a","l","l">>}
LimitChoices == {1, 10}
MinCommentChoices == {0, 3, 10}

Issue1 ==
    [number |-> 1, title |-> <<"C","r","a","s","h"," ","o","n"," ","s","t","a","r","t","u","p">>, body |-> <<"I","t"," ","c","r","a","s","h","e","s",".">>,
     state |-> <<"o","p","e","n">>, author |-> <<"b","o","b">>, created_at |-> <<"2","0","2","6","-","0","1","-","0","1","T","0","0",":","0","0",":","0","0">>,
     updated_at |-> <<"2","0","2","6","-","0","1","-","0","1","T","0","0",":","0","0",":","0","0">>, comments |-> 2,
     labels |-> <<<<"b","u","g">>>>, assignees |-> <<>>, url |-> IssueUrl(1)]
Issue2 ==
    [number |-> 2, title |-> <<"T","y","p","o"," ","i","n"," ","R","E","A","D","M","E">>, body |-> <<>>,
     state |-> <<"c","l","o","s","e","d">>, author |-> <<"c","a","r","o","l">>, created_at |-> <<"2","0","2","6","-","0","1","-","0","1","T","0","0",":","0","0",":","0","0">>,
     updated_at |-> <<"2","0","2","6","-","0","1","-","0","1","T","0","1",":","0","0",":","0","0">>, comments |-> 0,
     labels |-> <<>>, assignees |-> <<>>, url |-> IssueUrl(2)]
InitialIssues == <<Issue1, Issue2>>

NoInput ==
    [raw |-> "", repo |-> <<>>, text |-> <<>>, assignees |-> <<>>, labels |-> <<>>,
     state |-> <<>>, limit |-> 0, min_comments |-> 0]
NoEnv == [gh |-> DefaultGh, fails |-> {}, issues |-> <<>>]

MethodNames ==
    {"get_today_prs", "get_valuable_prs", "analyze_pr", "detect_controversial_prs",
     "create_issue_from_text", "get_issues"}
WrapperNames ==
    {"_get_trending_repos_wrapper", "_get_valuable_prs_wrapper",
     "_get_today_prs_wrapper", "_analyze_pr_wrapper", "_create_issue_wrapper",
     "_get_issues_wrapper", "_analyze_trending_reason_wrapper"}

-----------------------------------------------------------------------------
(***************************************************************************)
(* Tool calls: by the agent loop through the wrappers, and by the HTTP     *)
(* endpoints on the tool methods directly (src/backend/main.py)            *)
(***************************************************************************)
ToolsInit ==
    /\ tool_pc = "idle"
    /\ tool_name = ""
    /\ tool_input = NoInput
    /\ tool_env = NoEnv
    /\ tool_out = ValOk(NoVal)
    /\ gh_calls = <<>>
    /\ gh_issues = InitialIssues

\* one call of the tool function name on input, in environment e, with
\* result r; the issues of the repository are what the call leaves
ToolCall(name, input, e, r) ==
    /\ tool_pc = "idle"
    /\ tool_pc' = "done"
    /\ tool_name' = name
    /\ tool_input' = input
    /\ tool_env' = [gh |-> e.gh, fails |-> e.fails, issues |-> gh_issues]
    /\ tool_out' = r.out
    /\ gh_calls' = r.calls
    /\ gh_issues' = r.issues
    /\ UNCHANGED otherThanTools

GetTodayPrs ==
    \E limit \in LimitChoices, e \in PullEnvs :
        ToolCall("get_today_prs", [NoInput EXCEPT !.repo = RepoName, !.limit = limit], e,
                 get_today_prs(e.gh.pulls, limit, e.fails, gh_issues))

GetValuablePrs ==
    \E limit \in LimitChoices, mc \in MinCommentChoices \ {10}, e \in PullEnvs :
        ToolCall("get_valuable_prs",
                 [NoInput EXCEPT !.repo = RepoName, !.limit = limit, !.min_comments = mc],
                 e, get_valuable_prs(e.gh.pulls, limit, mc, e.fails, gh_issues))

AnalyzePr ==
    \E e \in AnalyzeEnvs :
        ToolCall("analyze_pr", [NoInput EXCEPT !.repo = RepoName], e,
                 analyze_pr(e.gh, e.fails, gh_issues))

DetectControversialPrs ==
    \E mc \in MinCommentChoices \ {0}, e \in ControversialEnvs :
        ToolCall("detect_controversial_prs",
                 [NoInput EXCEPT !.repo = RepoName, !.min_comments = mc], e,
                 detect_controversial_prs(e.gh, mc, e.fails, gh_issues))

CreateIssueFromText ==
    \E text \in IssueTexts, labels \in LabelChoices, e \in IssueEnvs :
        /\ Len(gh_issues) < MaxIssues
        /\ ToolCall("create_issue_from_text",
                    [NoInput EXCEPT !.repo = RepoName, !.text = text, !.labels = labels],
                    e, create_issue_from_text(gh_issues, text, <<>>, labels, e.fails))

GetIssues ==
    \E state \in StateChoices, limit \in LimitChoices, e \in ListIssueEnvs :
        ToolCall("get_issues",
                 [NoInput EXCEPT !.repo = RepoName, !.state = state, !.limit = limit], e,
                 get_issues(gh_issues, state, limit, e.fails))

TrendingReposWrapper ==
    \E raw \in RawInputs, e \in TrendEnvs :
        ToolCall("_get_trending_repos_wrapper", [NoInput EXCEPT !.raw = raw], e,
                 get_trending_repos_wrapper(raw, e.gh, e.fails, gh_issues))

ValuablePrsWrapper ==
    \E repo \in RepoInputs, e \in PullEnvs :
        /\ RepoExists(repo, e)
        /\ ToolCall("_get_valuable_prs_wrapper", [NoInput EXCEPT !.repo = repo], e,
                    get_valuable_prs_wrapper(repo, e.gh, e.fails, gh_issues))

TodayPrsWrapper ==
    \E repo \in RepoInputs, e \in PullEnvs :
        /\ RepoExists(repo, e)
        /\ ToolCall("_get_today_prs_wrapper", [NoInput EXCEPT !.repo = repo], e,
                    get_today_prs_wrapper(repo, e.gh, e.fails, gh_issues))

AnalyzePrWrapper ==
    \E raw \in RawInputs, e \in AnalyzeEnvs :
        ToolCall("_analyze_pr_wrapper", [NoInput EXCEPT !.raw = raw], e,
                 analyze_pr_wrapper(raw, e.gh, e.fails, gh_issues))

CreateIssueWrapper ==
    \E raw \in RawInputs, e \in IssueEnvs :
        /\ Len(gh_issues) < MaxIssues
        /\ ToolCall("_create_issue_wrapper", [NoInput EXCEPT !.raw = raw], e,
                    create_issue_wrapper(raw, e.fails, gh_issues))

GetIssuesWrapper ==
    \E raw \in RawInputs, e \in ListIssueEnvs :
        ToolCall("_get_issues_wrapper", [NoInput EXCEPT !.raw = raw], e,
                 get_issues_wrapper(raw, e.fails, gh_issues))

TrendingReasonWrapper ==
    \E repo \in RepoInputs, e \in ReasonEnvs :
        /\ RepoExists(repo, e)
        /\ ToolCall("_analyze_trending_reason_wrapper", [NoInput EXCEPT !.repo = repo], e,
                    analyze_trending_reason_wrapper(repo, e.gh, e.fails, gh_issues))

\* the caller takes the result; the repository keeps its issues
ToolReturn ==
    /\ tool_pc = "done"
    /\ tool_pc' = "idle"
    /\ tool_name' = ""
    /\ tool_input' = NoInput
    /\ tool_env' = NoEnv
    /\ tool_out' = ValOk(NoVal)
    /\ gh_calls' = <<>>
    /\ UNCHANGED gh_issues
    /\ UNCHANGED otherThanTools

\* between two tool calls somebody reopens a closed issue of the repository
ReopenIssue ==
    \E i \in DOMAIN gh_issues :
        /\ tool_pc = "idle"
        /\ gh_issues[i].state = <<"c","l","o","s","e","d">>
        /\ gh_issues' = [gh_issues EXCEPT ![i].state = <<"o","p","e","n">>]
        /\ UNCHANGED <<tool_pc, tool_name, tool_input, tool_env, tool_out, gh_calls>>
        /\ UNCHANGED otherThanTools

NextTools ==
    \/ GetTodayPrs
    \/ GetValuablePrs
    \/ AnalyzePr
    \/ DetectControversialPrs
    \/ CreateIssueFromText
    \/ GetIssues
    \/ TrendingReposWrapper
    \/ ValuablePrsWrapper
    \/ TodayPrsWrapper
    \/ AnalyzePrWrapper
    \/ CreateIssueWrapper
    \/ GetIssuesWrapper
    \/ TrendingReasonWrapper
    \/ ToolReturn
    \/ ReopenIssue

-----------------------------------------------------------------------------
(***************************************************************************)
(* Claims about the tool wrappers and the PR and issue tools               *)
(***************************************************************************)
ToolDone == tool_pc = "done"

\* the call handed a str to its caller
ReturnedStr == tool_out.kind = "return" /\ tool_out.val.py = "str"

ListMethods == {"get_today_prs", "get_valuable_prs", "detect_controversial_prs",
                "get_issues"}

\* {"error": message}, or [{"error": message}] from a list-returning method
IsErrorDict(d) == DOMAIN d = {"error"} /\ d.error # <<>>
ReturnedErrorPayload ==
    /\ tool_out.kind = "return"
    /\ IF tool_name \in ListMethods
       THEN /\ tool_out.val.py = "list"
            /\ Len(tool_out.val.items) = 1
            /\ IsErrorDict(tool_out.val.items[1])
       ELSE /\ tool_out.val.py = "dict"
            /\ IsErrorDict(tool_out.val.d)

\* a GitHub call made by the tool call failed
AGitHubCallFailed == \E i \in DOMAIN gh_calls : gh_calls[i] \in tool_env.fails

\* ... other than the listing of open issues made by the duplicate search of
\* create_issue_from_text
AnUnabsorbedCallFailed ==
    \E i \in DOMAIN gh_calls :
        /\ gh_calls[i] \in tool_env.fails
        /\ ~(tool_name = "create_issue_from_text" /\ gh_calls[i] = "get_issues")

NoIssueCreated == gh_issues = tool_env.issues

\* C4 (as stated): every agent tool wrapper returns a string and raises
\* nothing to the agent loop, whatever the raw input and whatever the GitHub
\* and LLM calls do, including in the non-JSON branch of the trending wrapper.
C4_WrappersReturnString ==
    (ToolDone /\ tool_name \in WrapperNames) => ReturnedStr

\* C5 (as stated): when a GitHub call fails inside a PR or issue tool method,
\* the method returns an error payload, and create_issue_from_text has
\* created no issue.
C5_AnyFailureGivesErrorPayload ==
    (ToolDone /\ tool_name \in MethodNames /\ AGitHubCallFailed)
        => (ReturnedErrorPayload /\ NoIssueCreated)

\* C5 (amended): a PR or issue tool method never raises; when a GitHub call
\* other than the duplicate search's listing fails, it returns an error payload
\* and no issue was created; whenever create_issue_from_text returns an error
\* payload no issue was created; when only the duplicate search's listing
\* fails, create_issue_from_text creates the issue and reports no similar issue.
C5_FailureGivesErrorPayload ==
    (ToolDone /\ tool_name \in MethodNames) =>
        /\ tool_out.kind = "return"
        /\ AnUnabsorbedCallFailed => (ReturnedErrorPayload /\ NoIssueCreated)
        /\ (tool_name = "create_issue_from_text" /\ ReturnedErrorPayload)
              => NoIssueCreated
        /\ (tool_name = "create_issue_from_text" /\ tool_env.fails = {"get_issues"})
              => /\ ~ReturnedErrorPayload
                 /\ tool_out.val.d.similar_issues = <<>>
                 /\ Len(gh_issues) = Len(tool_env.issues) + 1
                 /\ tool_out.val.d.number = gh_issues[Len(gh_issues)].number

C5_Witness ==
    /\ ToolDone
    /\ tool_name = "create_issue_from_text"
    /\ tool_env.fails = {"get_issues", "create_issue"}
    /\ gh_calls = <<"get_repo", "get_issues", "create_issue">>
    /\ tool_out = ValOk(DictVal(ErrorDict(GhErrText("create_issue"))))
    /\ NoIssueCreated

JsonContractWrappers ==
    {"_analyze_pr_wrapper", "_create_issue_wrapper", "_get_issues_wrapper"}
RequiredKeys(name) ==
    CASE name = "_analyze_pr_wrapper"   -> {"repo", "pr_number"}
      [] name = "_create_issue_wrapper" -> {"repo", "text"}
      [] name = "_get_issues_wrapper"   -> {"repo"}

\* raw is plain text, JSON of another type, or an object missing a required key
NotTheContractObject(name, raw) ==
    \/ JsonLoads(raw).jt # "object"
    \/ ~(RequiredKeys(name) \subseteq DOMAIN JsonLoads(raw).obj)

\* C6: the analyze_pr, create_issue and get_issues wrappers, given input that
\* is not the JSON object of their contract, return an error-describing string
\* and perform no GitHub call (and so create no issue).
C6_BadInputNoGitHubCall ==
    (ToolDone /\ tool_name \in JsonContractWrappers
        /\ NotTheContractObject(tool_name, tool_input.raw))
        => /\ ReturnedStr
           /\ StartsWith(tool_out.val.items, <<"E","r","r","o","r",":"," ">>)
           /\ Len(tool_out.val.items) > Len(<<"E","r","r","o","r",":"," ">>)
           /\ gh_calls = <<>>
           /\ NoIssueCreated

C6_Witness ==
    /\ ToolDone
    /\ tool_name = "_create_issue_wrapper"
    /\ tool_input.raw = R_repo
    /\ tool_env.fails = {}
    /\ tool_out = ValOk(StrVal(<<"E","r","r","o","r",":"," ","'","t","e","x","t","'">>))
    /\ gh_calls = <<>>
    /\ NoIssueCreated

\* the wrappers of the tools that return a list, and those of the tools that
\* return a dict
ListWrappers == {"_get_valuable_prs_wrapper", "_get_today_prs_wrapper", "_get_issues_wrapper"}
ErrorWrappers == {"_analyze_pr_wrapper", "_create_issue_wrapper",
                  "_analyze_trending_reason_wrapper"}

\* the repository the wrapper was asked about
WrapperRepo ==
    IF tool_name = "_get_issues_wrapper" THEN JsonLoads(tool_input.raw).obj.repo
    ELSE tool_input.repo

\* the text a list wrapper returns when there is nothing to list
NothingFound(name, repo) ==
    CASE name = "_get_valuable_prs_wrapper" -> <<"N","o"," ","v","a","l","u","a","b","l","e"," ","P","R","s"," ","f","o","u","n","d"," ","f","o","r"," ">> \o repo \o <<" ","t","o","d","a","y",".">>
      [] name = "_get_today_prs_wrapper"    -> <<"N","o"," ","P","R","s"," ","f","o","u","n","d"," ","f","o","r"," ">> \o repo \o <<" ","t","o","d","a","y",".">>
      [] name = "_get_issues_wrapper"       -> <<"N","o"," ","i","s","s","u","e","s"," ","f","o","u","n","d"," ","f","o","r"," ">> \o repo \o <<".">>

\* the tool under the wrapper was called and its last GitHub call failed; the
\* message of that failure
UpstreamFailed == gh_calls # <<>> /\ gh_calls[Len(gh_calls)] \in tool_env.fails
UpstreamMessage == GhErrText(gh_calls[Len(gh_calls)])

\* the tool under the list wrapper was called, no GitHub call failed and
\* GitHub holds nothing the tool lists
UpstreamEmpty ==
    /\ gh_calls # <<>>
    /\ ~AGitHubCallFailed
    /\ CASE tool_name = "_get_valuable_prs_wrapper" ->
              \A i \in DOMAIN tool_env.gh.pulls :
                 ~(tool_env.gh.pulls[i].updated_today /\ tool_env.gh.pulls[i].comments >= 3)
         [] tool_name = "_get_today_prs_wrapper" ->
              \A i \in DOMAIN tool_env.gh.pulls : ~tool_env.gh.pulls[i].updated_today
         [] tool_name = "_get_issues_wrapper" ->
              LET state == GetOr(JsonLoads(tool_input.raw), "state", <<"o","p","e","n">>)
              IN \A i \in DOMAIN tool_env.issues :
                    state # <<"a","l","l">> /\ tool_env.issues[i].state # state

\* C29: when the tool under get_valuable_prs, get_today_prs or get_issues
\* reports an upstream error, the wrapper returns the "No ... found" text it
\* returns for an empty list, and the upstream message is not in what it
\* returns; the analyze_pr, create_issue and analyze_trending_reason wrappers
\* return "Error: " followed by the message.
C29_ListWrappersHideUpstreamErrors ==
    ToolDone =>
        /\ (tool_name \in ListWrappers /\ UpstreamFailed) =>
              /\ tool_out = ValOk(StrVal(NothingFound(tool_name, WrapperRepo)))
              /\ ~Contains(UpstreamMessage, tool_out.val.items)
        /\ (tool_name \in ListWrappers /\ UpstreamEmpty) =>
              tool_out = ValOk(StrVal(NothingFound(tool_name, WrapperRepo)))
        /\ (tool_name \in ErrorWrappers /\ UpstreamFailed
                /\ ~(tool_name = "_analyze_trending_reason_wrapper"
                        /\ gh_calls[Len(gh_calls)] = "get_readme")) =>
              tool_out = ValOk(StrVal(<<"E","r","r","o","r",":"," ">> \o UpstreamMessage))
        /\ (tool_name = "_analyze_trending_reason_wrapper" /\ ~tool_env.gh.hasToken) =>
              tool_out = ValOk(StrVal(<<"E","r","r","o","r",":"," ","G","I","T","H","U","B","_","T","O","K","E","N"," ","i","s"," ","r","e","q","u","i","r","e","d">>))

\* the listing of the pull requests failed under get_valuable_prs and the
\* wrapper answers that no valuable pull request was found
C29_Witness ==
    /\ ToolDone
    /\ tool_name = "_get_valuable_prs_wrapper"
    /\ gh_calls = <<"get_repo", "get_pulls">>
    /\ "get_pulls" \in tool_env.fails
    /\ tool_out.val.items = <<"N","o"," ","v","a","l","u","a","b","l","e"," ","P","R","s"," ","f","o","u","n","d"," ","f","o","r"," ">> \o tool_input.repo \o <<" ","t","o","d","a","y",".">>

-----------------------------------------------------------------------------
(***************************************************************************)
(* HubMindQAAgent (src/src/agents/qa_agent.py)                             *)
(***************************************************************************)

\* x or 'N/A'
OrNA(x) == IF x # <<>> THEN x ELSE <<"N","/","A">>

\* lines 112-117: the basic info parts
BasicParts(gh) ==
    <<<<"R","e","p","o","s","i","t","o","r","y",":"," ">> \o gh.full_name,
      <<"D","e","s","c","r","i","p","t","i","o","n",":"," ">> \o OrNA(gh.description),
      <<"L","a","n","g","u","a","g","e",":"," ">> \o OrNA(gh.language),
      <<"S","t","a","r","s",":"," ">> \o Digits(gh.stars),
      <<"F","o","r","k","s",":"," ">> \o Digits(gh.forks),
      <<"O","p","e","n"," ","I","s","s","u","e","s",":"," ">> \o Digits(gh.open_issues)>>

\* lines 121-122
TopicsParts(gh) ==
    IF gh.topics # <<>> THEN <<<<"T","o","p","i","c","s",":"," ">> \o Join(<<","," ">>, gh.topics)>> ELSE <<>>

\* lines 126-128
ReadmeParts(gh) == <<<<"\n","R","E","A","D","M","E"," ","(","e","x","c","e","r","p","t",")",":","\n">> \o Take(gh.readme, 2000)>>

\* lines 134-137
CommitsParts(gh) ==
    <<<<"\n","R","e","c","e","n","t"," ","c","o","m","m","i","t","s",":">>>>
        \o [k \in 1..Len(Take(gh.commits, 5)) |-> <<"-"," ">> \o Take(gh.commits[k], 100)]

\* lines 143-145
ContributorsParts(gh) ==
    <<<<"\n","T","o","p"," ","C","o","n","t","r","i","b","u","t","o","r","s",":"," ">> \o Join(<<","," ">>, Take(gh.contributors, 10))>>

\* lines 151-153
FilesParts(gh) ==
    LET isFile(item) == item.type = "file"
        files == SelectSeq(gh.contents, isFile)
        names == [k \in 1..Len(files) |-> files[k].name]
    IN <<<<"\n","T","o","p","-","l","e","v","e","l"," ","f","i","l","e","s",":"," ">> \o Join(<<","," ">>, Take(names, 20))>>

\* what a gathering step appends when its GitHub call succeeds
StepParts(step, gh) ==
    CASE step = "get_topics"       -> TopicsParts(gh)
      [] step = "get_readme"       -> ReadmeParts(gh)
      [] step = "get_commits"      -> CommitsParts(gh)
      [] step = "get_contributors" -> ContributorsParts(gh)
      [] step = "get_contents"     -> FilesParts(gh)

\* the steps of _gather_repo_context whose GitHub call is inside a try/except
GuardedSteps == <<"get_readme", "get_commits", "get_contributors", "get_contents">>

RECURSIVE GuardedParts(_, _, _)
GuardedParts(steps, gh, fails) ==
    IF steps = <<>> THEN <<>>
    ELSE (IF Head(steps) \in fails THEN <<>> ELSE StepParts(Head(steps), gh))
            \o GuardedParts(Tail(steps), gh, fails)

\* _gather_repo_context(repo): repo.get_topics() (line 120) is outside any try
gather_repo_context(gh, fails) ==
    IF "get_topics" \in fails
    THEN [kind |-> "raise",
          exc |-> [cls |-> "GithubException", text |-> GhErrText("get_topics")],
          context |-> <<>>, calls |-> <<"get_topics">>]
    ELSE [kind |-> "return", exc |-> NoToolExc,
          context |-> Join(<<"\n">>, BasicParts(gh) \o TopicsParts(gh)
                                      \o GuardedParts(GuardedSteps, gh, fails)),
          calls |-> <<"get_topics">> \o GuardedSteps]

\* _extract_sources(context)
extract_sources(context) ==
    LET isSource(line) == \/ StartsWith(line, <<"R","e","p","o","s","i","t","o","r","y",":">>)
                          \/ StartsWith(line, <<"R","E","A","D","M","E">>)
                          \/ StartsWith(line, <<"R","e","c","e","n","t"," ","c","o","m","m","i","t","s">>)
    IN Take(SelectSeq(SplitOn(context, "\n"), isSource), 5)

\* self.qa_prompt_template.format(context=context, question=question)
QaPrompt(context, question) ==
    <<"Y","o","u"," ","a","r","e"," ","a"," ","h","e","l","p","f","u","l"," ","G","i","t","H","u","b"," ","r","e","p","o","s","i","t","o","r","y"," ","a","s","s","i","s","t","a","n","t","."," ","A","n","s","w","e","r"," ","q","u","e","s","t","i","o","n","s"," ","a","b","o","u","t"," ","r","e","p","o","s","i","t","o","r","i","e","s"," ","b","a","s","e","d"," ","o","n"," ","t","h","e"," ","p","r","o","v","i","d","e","d"," ","c","o","n","t","e","x","t",".","\n","\n","C","o","n","t","e","x","t"," ","a","b","o","u","t"," ","t","h","e"," ","r","e","p","o","s","i","t","o","r","y",":","\n">>
        \o context \o <<"\n","\n","Q","u","e","s","t","i","o","n",":"," ">> \o question
        \o <<"\n","\n","P","r","o","v","i","d","e"," ","a"," ","c","l","e","a","r",","," ","c","o","n","c","i","s","e"," ","a","n","s","w","e","r","."," ","I","f"," ","y","o","u"," ","d","o","n","'","t"," ","h","a","v","e"," ","e","n","o","u","g","h"," ","i","n","f","o","r","m","a","t","i","o","n",","," ","s","a","y"," ","s","o",".">>

\* response.content if hasattr(response, "content") else str(response)
AnswerOf(response) == IF response.has_content THEN response.content ELSE response.repr

\* the except branch of answer_repo_question (lines 100-105)
QaErrorDict(repo_full_name, question, e) ==
    [question |-> question, answer |-> <<"E","r","r","o","r",":"," ">> \o e.text, repo |-> repo_full_name]

QaResult(out, context, calls, prompts) ==
    [out |-> out, context |-> context, calls |-> calls, prompts |-> prompts]

\* answer_repo_question(repo_full_name, question)
answer_repo_question(repo_full_name, question, gh, fails) ==
    LET answer(g) ==
            IF g.kind = "raise"
            THEN QaResult(QaErrorDict(repo_full_name, question, g.exc), <<>>,
                          <<"get_repo">> \o g.calls, <<>>)
            ELSE IF "llm_invoke" \in fails
            THEN QaResult(QaErrorDict(repo_full_name, question,
                                      [cls |-> "APIConnectionError",
                                       text |-> <<"C","o","n","n","e","c","t","i","o","n"," ","e","r","r","o","r",".">>]),
                          g.context, <<"get_repo">> \o g.calls,
                          <<QaPrompt(g.context, question)>>)
            ELSE QaResult([question |-> question, answer |-> AnswerOf(gh.response),
                           repo |-> repo_full_name,
                           sources |-> extract_sources(g.context)],
                          g.context, <<"get_repo">> \o g.calls,
                          <<QaPrompt(g.context, question)>>)
    IN IF "get_repo" \in fails
       THEN QaResult(QaErrorDict(repo_full_name, question,
                                 [cls |-> "GithubException",
                                  text |-> GhErrText("get_repo")]),
                     <<>>, <<"get_repo">>, <<>>)
       ELSE Bind(gather_repo_context(gh, fails), answer)

QaSites == {"get_repo", "get_topics", "get_readme", "get_commits", "get_contributors",
            "get_contents", "llm_invoke"}

QaRepo ==
    [full_name |-> RepoName, description |-> <<>>, language |-> <<"P","y","t","h","o","n">>,
     stars |-> 42, forks |-> 5, open_issues |-> 2, topics |-> <<<<"a","i">>, <<"c","l","i">>>>,
     readme |-> <<"#"," ","r","\n","R","E","A","D","M","E"," ","o","f"," ","r">>,
     commits |-> <<<<"F","i","x"," ","c","r","a","s","h">>, <<"A","d","d"," ","d","o","c","s","\n","\n","R","e","p","o","s","i","t","o","r","y",":"," ","x">>>>,
     contributors |-> <<<<"a","l","i","c","e">>, <<"b","o","b">>>>,
     contents |-> <<[name |-> <<"R","E","A","D","M","E",".","m","d">>, type |-> "file"],
                    [name |-> <<"s","r","c">>, type |-> "dir"],
                    [name |-> <<"s","e","t","u","p",".","p","y">>, type |-> "file"]>>,
     response |-> [has_content |-> TRUE, content |-> <<"I","t"," ","i","s"," ","a"," ","C","L","I",".">>, repr |-> <<>>]]

QaRepos ==
    {[QaRepo EXCEPT !.topics = t, !.response = rs] :
        t \in {<<>>, QaRepo.topics},
        rs \in {QaRepo.response,
                [has_content |-> FALSE, content |-> <<>>, repr |-> <<"I","t"," ","i","s"," ","a"," ","C","L","I",".">>]}}

Questions == {<<"W","h","a","t"," ","i","s"," ","t","h","i","s","?">>, <<"W","h","o"," ","m","a","i","n","t","a","i","n","s"," ","i","t","?">>}

NoQaOut == [none |-> TRUE]

QaInit ==
    /\ qa_pc = "idle"
    /\ qa_input = [repo |-> <<>>, question |-> <<>>]
    /\ qa_env = [gh |-> QaRepo, fails |-> {}]
    /\ qa_out = NoQaOut
    /\ qa_context = <<>>
    /\ qa_calls = <<>>
    /\ qa_prompts = <<>>

AnswerRepoQuestion ==
    \E question \in Questions, gh \in QaRepos, fails \in SUBSET QaSites :
        LET r == answer_repo_question(RepoName, question, gh, fails) IN
        /\ qa_pc = "idle"
        /\ qa_pc' = "done"
        /\ qa_input' = [repo |-> RepoName, question |-> question]
        /\ qa_env' = [gh |-> gh, fails |-> fails]
        /\ qa_out' = r.out
        /\ qa_context' = r.context
        /\ qa_calls' = r.calls
        /\ qa_prompts' = r.prompts
        /\ UNCHANGED otherThanQa

\* the caller takes the answer
QaReturn ==
    /\ qa_pc = "done"
    /\ qa_pc' = "idle"
    /\ qa_input' = [repo |-> <<>>, question |-> <<>>]
    /\ qa_env' = [gh |-> QaRepo, fails |-> {}]
    /\ qa_out' = NoQaOut
    /\ qa_context' = <<>>
    /\ qa_calls' = <<>>
    /\ qa_prompts' = <<>>
    /\ UNCHANGED otherThanQa

NextQa ==
    \/ AnswerRepoQuestion
    \/ QaReturn

-----------------------------------------------------------------------------
(***************************************************************************)
(* Claims about HubMindQAAgent                                             *)
(***************************************************************************)
QaDone == qa_pc = "done"

\* a step of the call failed: the repository lookup, the context gathering
\* (the one step that is not best-effort) or the LLM call
QaFailed ==
    \/ "get_repo" \in qa_env.fails
    \/ "get_topics" \in qa_env.fails
    \/ "llm_invoke" \in qa_env.fails

\* C7 (as stated): answer_repo_question always returns the four fields
\* question, answer, repo and sources; on a failure the answer is an
\* error-prefixed string and the other fields, sources included, are present.
C7_AlwaysFourFields ==
    QaDone => /\ DOMAIN qa_out = {"question", "answer", "repo", "sources"}
              /\ qa_out.question = qa_input.question
              /\ qa_out.repo = qa_input.repo
              /\ QaFailed => StartsWith(qa_out.answer, <<"E","r","r","o","r",":"," ">>)

\* the context the claim describes: the basic info, then the lines of every
\* step that succeeded, in the fixed order
AllSteps == <<"get_topics", "get_readme", "get_commits", "get_contributors",
              "get_contents">>
RECURSIVE BestEffortParts(_, _, _)
BestEffortParts(steps, gh, fails) ==
    IF steps = <<>> THEN <<>>
    ELSE (IF Head(steps) \in fails THEN <<>> ELSE StepParts(Head(steps), gh))
            \o BestEffortParts(Tail(steps), gh, fails)

\* C8 (as stated): for every subset of gathering steps that fail, the steps
\* that succeed contribute their lines in order, the failed ones nothing, and
\* the question is still sent to the LLM.
C8_EveryStepBestEffort ==
    (QaDone /\ "get_repo" \notin qa_env.fails) =>
        /\ qa_context = Join(<<"\n">>, BasicParts(qa_env.gh)
                                        \o BestEffortParts(AllSteps, qa_env.gh,
                                                           qa_env.fails))
        /\ qa_prompts = <<QaPrompt(qa_context, qa_input.question)>>

-----------------------------------------------------------------------------
(***************************************************************************)
(* LLMFactory: the provider registry and create_llm                        *)
(* (src/src/utils/llm_factory.py)                                          *)
(***************************************************************************)

\* the characters of the model's provider names in code point order
CodePointOrder ==
    <<"-","0","1","2","3","4","5","6","7","8","9","A","B","C","D","E","F","G","H","I","J","K","L","M","N","O","P","Q","R","S","T","U","V","W","X","Y","Z","_","a","b","c","d","e","f","g","h","i","j","k","l","m","n","o","p","q","r","s","t","u","v","w","x","y","z">>
CodePoint(c) == CHOOSE i \in 1..Len(CodePointOrder) : CodePointOrder[i] = c

\* a < b for str a, b
RECURSIVE StrLess(_, _)
StrLess(a, b) ==
    IF b = <<>> THEN FALSE
    ELSE IF a = <<>> THEN TRUE
    ELSE IF Head(a) = Head(b) THEN StrLess(Tail(a), Tail(b))
    ELSE CodePoint(Head(a)) < CodePoint(Head(b))

\* sorted(keys)
RECURSIVE Sorted(_)
Sorted(keys) ==
    IF keys = {} THEN <<>>
    ELSE LET least == CHOOSE k \in keys : \A other \in keys \ {k} : StrLess(k, other)
         IN <<least>> \o Sorted(keys \ {least})

\* PROVIDER_CONFIGS[provider]["default_model"]
PROVIDER_CONFIGS ==
    [p \in {<<"d","e","e","p","s","e","e","k">>, <<"o","p","e","n","a","i">>, <<"a","n","t","h","r","o","p","i","c">>, <<"g","o","o","g","l","e">>, <<"a","z","u","r","e">>, <<"o","l","l","a","m","a">>,
            <<"g","r","o","q">>, <<"o","p","e","n","a","i","_","c","o","m","p","a","t","i","b","l","e">>} |->
        CASE p = <<"d","e","e","p","s","e","e","k">>          -> "deepseek-chat"
          [] p = <<"o","p","e","n","a","i">>            -> "gpt-4-turbo-preview"
          [] p = <<"a","n","t","h","r","o","p","i","c">>         -> "claude-3-opus-20240229"
          [] p = <<"g","o","o","g","l","e">>            -> "gemini-pro"
          [] p = <<"a","z","u","r","e">>             -> "gpt-4"
          [] p = <<"o","l","l","a","m","a">>            -> "llama2"
          [] p = <<"g","r","o","q">>              -> "mixtral-8x7b-32768"
          [] p = <<"o","p","e","n","a","i","_","c","o","m","p","a","t","i","b","l","e">> -> ""]

\* _register_builtins(): the register calls made at import, in order
Builtins ==
    <<[name |-> <<"d","e","e","p","s","e","e","k">>, creator |-> "_create_deepseek"],
      [name |-> <<"o","p","e","n","a","i">>, creator |-> "_create_openai"],
      [name |-> <<"a","n","t","h","r","o","p","i","c">>, creator |-> "_create_anthropic"],
      [name |-> <<"g","o","o","g","l","e">>, creator |-> "_create_google"],
      [name |-> <<"a","z","u","r","e">>, creator |-> "_create_azure"],
      [name |-> <<"o","l","l","a","m","a">>, creator |-> "_create_ollama"],
      [name |-> <<"g","r","o","q">>, creator |-> "_create_groq"],
      [name |-> <<"o","p","e","n","a","i","_","c","o","m","p","a","t","i","b","l","e">>, creator |-> "_create_openai_compatible"]>>

\* the key register stores under (line 93), and the same without lower()
RegisterKeyAsGiven(name) == name
RegisterKey(name) == Lower(name)

\* cls._CREATORS[name.lower()] = creator
register(reg, name, creator) ==
    [k \in DOMAIN reg \cup {RegisterKey(name)} |->
        IF k = RegisterKey(name) THEN creator ELSE reg[k]]

RECURSIVE RegisterAll(_, _)
RegisterAll(reg, calls) ==
    IF calls = <<>> THEN reg
    ELSE RegisterAll(register(reg, Head(calls).name, Head(calls).creator), Tail(calls))

\* the names the unsupported-provider message lists (line 123), and the same
\* taken from PROVIDER_CONFIGS instead of the registry
SupportedFromConfigs(reg) == Join(<<","," ">>, Sorted(DOMAIN PROVIDER_CONFIGS))
Supported(reg) == Join(<<","," ">>, Sorted(DOMAIN reg))

\* lines 124-128
UnsupportedMessage(provider, reg) ==
    <<"U","n","s","u","p","p","o","r","t","e","d"," ","p","r","o","v","i","d","e","r",":"," ">> \o provider \o <<"."," ">>
        \o <<"R","e","g","i","s","t","e","r","e","d"," ","p","r","o","v","i","d","e","r","s",":"," ">> \o Supported(reg) \o <<"."," ">>
        \o <<"U","s","e"," ","p","r","o","v","i","d","e","r","=","'","o","p","e","n","a","i","_","c","o","m","p","a","t","i","b","l","e","'"," ","w","i","t","h"," ","b","a","s","e","_","u","r","l",","," ","a","p","i","_","k","e","y",","," ","m","o","d","e","l","_","n","a","m","e"," ","f","o","r"," ","c","u","s","t","o","m"," ","A","P","I","s",".">>

\* lines 131-132: "not model_name" holds for None and for "".  First the
\* same without the "not model_name" test.
DefaultedModelAlways(provider, model_name) ==
    IF provider \in DOMAIN PROVIDER_CONFIGS
    THEN IF PROVIDER_CONFIGS[provider] # "" THEN PyStr(PROVIDER_CONFIGS[provider])
         ELSE PyNone
    ELSE model_name
DefaultedModel(provider, model_name) ==
    IF ~Truthy(model_name) /\ provider \in DOMAIN PROVIDER_CONFIGS
    THEN IF PROVIDER_CONFIGS[provider] # "" THEN PyStr(PROVIDER_CONFIGS[provider])
         ELSE PyNone
    ELSE model_name

\* create_llm(provider, model_name, temperature, **kwargs): the exception it
\* raises itself, or the creator call it delegates to
create_llm(reg, provider, model_name, temperature, kwargs) ==
    LET dispatch(p) ==
            IF p \notin DOMAIN reg
            THEN [kind |-> "raise",
                  exc |-> [cls |-> "ValueError", text |-> UnsupportedMessage(p, reg)],
                  calls |-> <<>>]
            ELSE [kind |-> "delegated", exc |-> NoToolExc,
                  calls |-> <<[creator |-> reg[p],
                               model_name |-> DefaultedModel(p, model_name),
                               temperature |-> temperature, kwargs |-> kwargs]>>]
    IN Bind(Lower(provider), dispatch)

RegisterNames == {<<"O","p","e","n","A","I">>, <<"o","p","e","n","a","i">>, <<"m","y","-","l","l","m">>, <<"M","y","-","L","L","M">>, <<"L","o","c","a","l","_","7","B">>}
CustomCreators == {"custom_a", "custom_b"}
ProviderInputs ==
    {<<"o","p","e","n","a","i">>, <<"O","P","E","N","A","I">>, <<"m","y","-","l","l","m">>, <<"M","Y","-","L","L","M">>, <<"o","p","e","n","a","i","_","c","o","m","p","a","t","i","b","l","e">>, <<"G","r","o","q">>,
     <<"n","o","t","-","a","-","r","e","a","l","-","p","r","o","v","i","d","e","r">>}
DefaultTemperature == 3     \* temperature: float = 0.3, in tenths
NoKwargs == [k \in {} |-> ""]
\* (model_name, temperature, kwargs) of the create_llm calls
CreateArgs ==
    {<<PyNone, DefaultTemperature, NoKwargs>>,
     <<PyStr(""), 7, [api_key |-> "sk-1"]>>,
     <<PyStr("my-model"), DefaultTemperature, [api_key |-> "sk-1"]>>}

NoFactoryInput ==
    [provider |-> <<>>, model_name |-> PyNone, temperature |-> 0,
     kwargs |-> NoKwargs]
NoFactoryOut == [kind |-> "", exc |-> NoToolExc]

FactoryInit ==
    /\ creators = RegisterAll([k \in {} |-> ""], Builtins)
    /\ reg_log = Builtins
    /\ factory_pc = "idle"
    /\ factory_in = NoFactoryInput
    /\ factory_out = NoFactoryOut
    /\ creator_calls = <<>>

\* LLMFactory.register(name, creator), called by application code after import
Register ==
    \E name \in RegisterNames, creator \in CustomCreators :
        /\ factory_pc = "idle"
        /\ Len(reg_log) < Len(Builtins) + MaxRegs
        /\ creators' = register(creators, name, creator)
        /\ reg_log' = Append(reg_log, [name |-> name, creator |-> creator])
        /\ UNCHANGED <<factory_pc, factory_in, factory_out, creator_calls>>
        /\ UNCHANGED otherThanFactory

\* LLMFactory.create_llm(provider, model_name, temperature, **kwargs)
CreateLlm ==
    \E provider \in ProviderInputs, args \in CreateArgs :
        LET model_name == args[1]
            temperature == args[2]
            kwargs == args[3]
            r == create_llm(creators, provider, model_name, temperature, kwargs)
        IN
        /\ factory_pc = "idle"
        /\ factory_pc' = "done"
        /\ factory_in' = [provider |-> provider, model_name |-> model_name,
                          temperature |-> temperature, kwargs |-> kwargs]
        /\ factory_out' = [kind |-> r.kind, exc |-> r.exc]
        /\ creator_calls' = r.calls
        /\ UNCHANGED <<creators, reg_log>>
        /\ UNCHANGED otherThanFactory

\* the caller takes the result; the registry stays as it is
CreateLlmReturn ==
    /\ factory_pc = "done"
    /\ factory_pc' = "idle"
    /\ factory_in' = NoFactoryInput
    /\ factory_out' = NoFactoryOut
    /\ creator_calls' = <<>>
    /\ UNCHANGED <<creators, reg_log>>
    /\ UNCHANGED otherThanFactory

NextFactory ==
    \/ Register
    \/ CreateLlm
    \/ CreateLlmReturn

-----------------------------------------------------------------------------
(***************************************************************************)
(* Claims about the provider registry                                      *)
(***************************************************************************)
FactoryDone == factory_pc = "done"

\* a and b differ at most in the case of their letters
SameLetter(c, d) ==
    \/ c = d
    \/ \E i \in 1..Len(UpperCase) :
          {c, d} = {UpperCase[i], LowerCase[i]}
SameIgnoringCase(a, b) ==
    Len(a) = Len(b) /\ \A i \in 1..Len(a) : SameLetter(a[i], b[i])

\* the register calls made so far under a case variant of name
RegistrationsOf(name) ==
    {i \in DOMAIN reg_log : SameIgnoringCase(reg_log[i].name, name)}
IsRegistered(name) == RegistrationsOf(name) # {}
LastRegistration(name) ==
    reg_log[CHOOSE i \in RegistrationsOf(name) : \A j \in RegistrationsOf(name) : j <= i]

\* name is an entry of the list the message gives after "Registered providers:"
ListedIn(name, message) ==
    \/ Contains(<<"R","e","g","i","s","t","e","r","e","d"," ","p","r","o","v","i","d","e","r","s",":"," ">> \o name \o <<","," ">>, message)
    \/ Contains(<<","," ">> \o name \o <<","," ">>, message)
    \/ Contains(<<","," ">> \o name \o <<"."," ","U","s","e"," ","p","r","o","v","i","d","e","r","=">>, message)
    \/ Contains(<<"R","e","g","i","s","t","e","r","e","d"," ","p","r","o","v","i","d","e","r","s",":"," ">> \o name \o <<"."," ","U","s","e"," ","p","r","o","v","i","d","e","r","=">>, message)

\* C9: create_llm with a provider name that is not in the registry raises the
\* unsupported-provider error; its message lists every provider name
\* registered at that moment, also those registered after import, and no
\* creator is invoked.
C9_UnsupportedListsRegistered ==
    (FactoryDone /\ ~IsRegistered(factory_in.provider)) =>
        /\ factory_out.kind = "raise"
        /\ factory_out.exc.cls = "ValueError"
        /\ StartsWith(factory_out.exc.text, <<"U","n","s","u","p","p","o","r","t","e","d"," ","p","r","o","v","i","d","e","r",":"," ">>)
        /\ \A i \in DOMAIN reg_log :
              \E listed \in DOMAIN creators :
                  /\ SameIgnoringCase(listed, reg_log[i].name)
                  /\ ListedIn(listed, factory_out.exc.text)
        /\ creator_calls = <<>>

C9_Witness ==
    /\ FactoryDone
    /\ factory_in.provider = <<"n","o","t","-","a","-","r","e","a","l","-","p","r","o","v","i","d","e","r">>
    /\ Len(reg_log) = Len(Builtins) + 2
    /\ reg_log[Len(Builtins) + 1].name = <<"m","y","-","l","l","m">>
    /\ reg_log[Len(Builtins) + 2].name = <<"L","o","c","a","l","_","7","B">>
    /\ factory_out.kind = "raise"
    /\ ListedIn(<<"m","y","-","l","l","m">>, factory_out.exc.text)
    /\ ListedIn(<<"l","o","c","a","l","_","7","b">>, factory_out.exc.text)
    /\ creator_calls = <<>>

\* C10: provider names are a case-insensitive unique key.  The registry holds
\* one entry per name up to case, stored under the lower-cased name and
\* holding the creator of the most recent registration of a case variant of it
\* (so a re-registration replaces that entry and no other); create_llm with
\* any case variant of a registered name calls exactly that creator.
C10_CaseInsensitiveLastWins ==
    /\ \A i \in DOMAIN reg_log :
          \E k \in DOMAIN creators :
              /\ SameIgnoringCase(k, reg_log[i].name)
              /\ \A c \in 1..Len(k) : \A u \in 1..Len(UpperCase) : k[c] # UpperCase[u]
              /\ creators[k] = LastRegistration(reg_log[i].name).creator
    /\ \A k \in DOMAIN creators : IsRegistered(k)
    /\ \A k1, k2 \in DOMAIN creators : SameIgnoringCase(k1, k2) => k1 = k2
    /\ (FactoryDone /\ IsRegistered(factory_in.provider)) =>
          /\ factory_out.kind = "delegated"
          /\ Len(creator_calls) = 1
          /\ creator_calls[1].creator = LastRegistration(factory_in.provider).creator

C10_Witness ==
    /\ FactoryDone
    /\ factory_in.provider = <<"O","P","E","N","A","I">>
    /\ Len(reg_log) = Len(Builtins) + 2
    /\ reg_log[Len(Builtins) + 1] = [name |-> <<"O","p","e","n","A","I">>, creator |-> "custom_a"]
    /\ reg_log[Len(Builtins) + 2] = [name |-> <<"o","p","e","n","a","i">>, creator |-> "custom_b"]
    /\ creator_calls[1].creator = "custom_b"
    /\ creators[<<"g","r","o","q">>] = "_create_groq"

\* the text of a model name, "" for None
TextOf(v) == IF v.t = "str" THEN v.s ELSE ""

\* C11: create_llm hands the creator the caller's model_name unchanged when
\* it is non-empty, and the provider's configured default model when it is
\* empty or omitted (an empty default arrives as None; a provider without a
\* configuration gets the empty model_name as it came); the creator is called
\* once, with the caller's temperature and keyword overrides unmodified.
C11_ModelDefaultAndDelegation ==
    (FactoryDone /\ factory_out.kind = "delegated") =>
        LET given == factory_in.model_name
            p == Lower(factory_in.provider)
            call == creator_calls[1]
        IN /\ Len(creator_calls) = 1
           /\ Truthy(given) => call.model_name = given
           /\ (~Truthy(given) /\ p \in DOMAIN PROVIDER_CONFIGS) =>
                 /\ TextOf(call.model_name) = PROVIDER_CONFIGS[p]
                 /\ PROVIDER_CONFIGS[p] # "" => call.model_name.t = "str"
           /\ (~Truthy(given) /\ p \notin DOMAIN PROVIDER_CONFIGS) =>
                 call.model_name = given
           /\ call.temperature = factory_in.temperature
           /\ call.kwargs = factory_in.kwargs

C11_Witness ==
    /\ FactoryDone
    /\ factory_in.provider = <<"G","r","o","q">>
    /\ factory_in.model_name = PyStr("")
    /\ factory_in.kwargs = [api_key |-> "sk-1"]
    /\ creator_calls =
          <<[creator |-> "_create_groq", model_name |-> PyStr("mixtral-8x7b-32768"),
             temperature |-> 7, kwargs |-> [api_key |-> "sk-1"]]>>

-----------------------------------------------------------------------------
(***************************************************************************)
(* The LLM client adapters: LLMFactory._create_* (llm_factory.py 137-350). *)
(* Model names, API keys and endpoints are TLA+ strings, "" standing for   *)
(* None as well (both are falsy and only tested with "or"/"not"); base     *)
(* URLs and exception messages are character sequences.                    *)
(***************************************************************************)

\* os.getenv(name, default) and the Config attributes read from it
EnvValue(name) ==
    CASE name = "DEEPSEEK_BASE_URL"          -> <<"h","t","t","p","s",":","/","/","d","e","e","p","s","e","e","k",".","i","n","t","e","r","n","a","l","/","v","1">>
      [] name = "OLLAMA_BASE_URL"            -> <<"h","t","t","p",":","/","/","o","l","l","a","m","a",".","i","n","t","e","r","n","a","l",":","1","1","4","3","4">>
      [] name = "OPENAI_COMPATIBLE_BASE_URL" -> <<"h","t","t","p","s",":","/","/","l","l","m",".","e","x","a","m","p","l","e",".","c","o","m","/","v","1","/">>
      [] OTHER                               -> "env:" \o name
Getenv(env, name, default) == IF name \in env.set THEN EnvValue(name) ELSE default

\* kwargs.get(key, default)
KwGet(kwargs, key, default) == IF key \in DOMAIN kwargs THEN kwargs[key] ELSE default

\* a or b, for a key, model name or endpoint and for a URL
Or(a, b) == IF a # "" THEN a ELSE b
OrUrl(a, b) == IF a # <<>> THEN a ELSE b

\* model_name or default; first the default whatever model_name is
ModelDefaultOnly(model_name, default) == default
ModelOr(model_name, default) == IF Truthy(model_name) THEN model_name.s ELSE default

\* {k: v for k, v in kwargs.items() if k not in keys}
Without(kwargs, keys) == [k \in DOMAIN kwargs \ keys |-> kwargs[k]]

\* s.rstrip("/")
RECURSIVE RStripSlash(_)
RStripSlash(s) == IF s # <<>> /\ s[Len(s)] = "/"
                  THEN RStripSlash(SubSeq(s, 1, Len(s) - 1)) ELSE s

NoClient == [cls |-> "", params |-> [k \in {} |-> ""]]
AdapterRaise(cls, text) ==
    [kind |-> "raise", exc |-> [cls |-> cls, text |-> text], client |-> NoClient]

\* cls(**explicit, **passthrough): a keyword given twice is a TypeError of the
\* call itself, before the constructor runs
Construct(cls, explicit, passthrough) ==
    IF DOMAIN explicit \cap DOMAIN passthrough # {}
    THEN AdapterRaise("TypeError", <<"g","o","t"," ","m","u","l","t","i","p","l","e"," ","v","a","l","u","e","s"," ","f","o","r"," ","k","e","y","w","o","r","d"," ","a","r","g","u","m","e","n","t">>)
    ELSE [kind |-> "client", exc |-> NoToolExc,
          client |-> [cls |-> cls,
                      params |-> [k \in DOMAIN explicit \cup DOMAIN passthrough |->
                                    IF k \in DOMAIN explicit THEN explicit[k]
                                    ELSE passthrough[k]]]]

\* the packages imported inside try/except ImportError
OptionalPackages ==
    {"langchain_anthropic", "langchain_google_genai", "langchain_ollama", "langchain_groq"}

\* lines 138-158
create_deepseek(model_name, temperature, kwargs, env) ==
    LET api_key == Or(KwGet(kwargs, "api_key", ""), Getenv(env, "DEEPSEEK_API_KEY", ""))
        base_url == OrUrl(KwGet(kwargs, "base_url", <<>>),
                       Getenv(env, "DEEPSEEK_BASE_URL", <<"h","t","t","p","s",":","/","/","a","p","i",".","d","e","e","p","s","e","e","k",".","c","o","m">>))
    IN IF api_key = ""
       THEN AdapterRaise("ValueError", <<"D","E","E","P","S","E","E","K","_","A","P","I","_","K","E","Y"," ","i","s"," ","r","e","q","u","i","r","e","d"," ","f","o","r"," ","D","e","e","p","S","e","e","k"," ","p","r","o","v","i","d","e","r">>)
       ELSE Construct("ChatOpenAI",
                      [model |-> ModelOr(model_name, "deepseek-chat"),
                       temperature |-> temperature,
                       api_key |-> api_key, base_url |-> base_url],
                      Without(kwargs, {"api_key", "base_url"}))

\* lines 161-178
create_openai(model_name, temperature, kwargs, env) ==
    LET api_key == Or(KwGet(kwargs, "api_key", ""), Getenv(env, "OPENAI_API_KEY", ""))
    IN IF api_key = ""
       THEN AdapterRaise("ValueError", <<"O","P","E","N","A","I","_","A","P","I","_","K","E","Y"," ","i","s"," ","r","e","q","u","i","r","e","d"," ","f","o","r"," ","O","p","e","n","A","I"," ","p","r","o","v","i","d","e","r">>)
       ELSE Construct("ChatOpenAI",
                      [model |-> ModelOr(model_name, "gpt-4-turbo-preview"),
                       temperature |-> temperature, api_key |-> api_key],
                      Without(kwargs, {"api_key"}))

\* lines 181-204
create_anthropic(model_name, temperature, kwargs, env) ==
    LET api_key == Or(KwGet(kwargs, "api_key", ""), Getenv(env, "ANTHROPIC_API_KEY", ""))
    IN IF "langchain_anthropic" \in env.missing
       THEN AdapterRaise("ImportError",
                <<"l","a","n","g","c","h","a","i","n","-","a","n","t","h","r","o","p","i","c"," ","i","s"," ","n","o","t"," ","i","n","s","t","a","l","l","e","d","."," ","I","n","s","t","a","l","l"," ","i","t"," ","w","i","t","h",":"," ","p","i","p"," ","i","n","s","t","a","l","l"," ","l","a","n","g","c","h","a","i","n","-","a","n","t","h","r","o","p","i","c">>)
       ELSE IF api_key = ""
       THEN AdapterRaise("ValueError", <<"A","N","T","H","R","O","P","I","C","_","A","P","I","_","K","E","Y"," ","i","s"," ","r","e","q","u","i","r","e","d"," ","f","o","r"," ","A","n","t","h","r","o","p","i","c"," ","p","r","o","v","i","d","e","r">>)
       ELSE Construct("ChatAnthropic",
                      [model |-> ModelOr(model_name, "claude-3-opus-20240229"),
                       temperature |-> temperature, api_key |-> api_key],
                      Without(kwargs, {"api_key"}))

\* lines 207-230
create_google(model_name, temperature, kwargs, env) ==
    LET api_key == Or(KwGet(kwargs, "api_key", ""), Getenv(env, "GOOGLE_API_KEY", ""))
    IN IF "langchain_google_genai" \in env.missing
       THEN AdapterRaise("ImportError",
                <<"l","a","n","g","c","h","a","i","n","-","g","o","o","g","l","e","-","g","e","n","a","i"," ","i","s"," ","n","o","t"," ","i","n","s","t","a","l","l","e","d","."," ","I","n","s","t","a","l","l"," ","i","t"," ","w","i","t","h",":"," ","p","i","p"," ","i","n","s","t","a","l","l"," ","l","a","n","g","c","h","a","i","n","-","g","o","o","g","l","e","-","g","e","n","a","i">>)
       ELSE IF api_key = ""
       THEN AdapterRaise("ValueError", <<"G","O","O","G","L","E","_","A","P","I","_","K","E","Y"," ","i","s"," ","r","e","q","u","i","r","e","d"," ","f","o","r"," ","G","o","o","g","l","e"," ","p","r","o","v","i","d","e","r">>)
       ELSE Construct("ChatGoogleGenerativeAI",
                      [model |-> ModelOr(model_name, "gemini-pro"),
                       temperature |-> temperature, google_api_key |-> api_key],
                      Without(kwargs, {"api_key"}))

\* lines 233-256
create_azure(model_name, temperature, kwargs, env) ==
    LET api_key == Or(KwGet(kwargs, "api_key", ""), Getenv(env, "AZURE_OPENAI_API_KEY", ""))
        endpoint == Or(KwGet(kwargs, "endpoint", ""), Getenv(env, "AZURE_OPENAI_ENDPOINT", ""))
    IN IF api_key = ""
       THEN AdapterRaise("ValueError", <<"A","Z","U","R","E","_","O","P","E","N","A","I","_","A","P","I","_","K","E","Y"," ","i","s"," ","r","e","q","u","i","r","e","d"," ","f","o","r"," ","A","z","u","r","e"," ","p","r","o","v","i","d","e","r">>)
       ELSE IF endpoint = ""
       THEN AdapterRaise("ValueError", <<"A","Z","U","R","E","_","O","P","E","N","A","I","_","E","N","D","P","O","I","N","T"," ","i","s"," ","r","e","q","u","i","r","e","d"," ","f","o","r"," ","A","z","u","r","e"," ","p","r","o","v","i","d","e","r">>)
       ELSE Construct("AzureChatOpenAI",
                      [model |-> ModelOr(model_name, "gpt-4"),
                       temperature |-> temperature,
                       azure_endpoint |-> endpoint, api_key |-> api_key,
                       api_version |-> KwGet(kwargs, "api_version", "2024-02-15-preview")],
                      Without(kwargs, {"api_key", "endpoint", "api_version"}))

\* lines 259-280
create_ollama(model_name, temperature, kwargs, env) ==
    LET base_url == OrUrl(KwGet(kwargs, "base_url", <<>>),
                       Getenv(env, "OLLAMA_BASE_URL", <<"h","t","t","p",":","/","/","l","o","c","a","l","h","o","s","t",":","1","1","4","3","4">>))
    IN IF "langchain_ollama" \in env.missing
       THEN AdapterRaise("ImportError",
                <<"l","a","n","g","c","h","a","i","n","-","o","l","l","a","m","a"," ","i","s"," ","n","o","t"," ","i","n","s","t","a","l","l","e","d","."," ","I","n","s","t","a","l","l"," ","i","t"," ","w","i","t","h",":"," ","p","i","p"," ","i","n","s","t","a","l","l"," ","l","a","n","g","c","h","a","i","n","-","o","l","l","a","m","a">>)
       ELSE Construct("ChatOllama",
                      [model |-> ModelOr(model_name, "llama2"),
                       temperature |-> temperature, base_url |-> base_url],
                      Without(kwargs, {"base_url"}))

\* lines 283-306
create_groq(model_name, temperature, kwargs, env) ==
    LET api_key == Or(KwGet(kwargs, "api_key", ""), Getenv(env, "GROQ_API_KEY", ""))
    IN IF "langchain_groq" \in env.missing
       THEN AdapterRaise("ImportError",
                <<"l","a","n","g","c","h","a","i","n","-","g","r","o","q"," ","i","s"," ","n","o","t"," ","i","n","s","t","a","l","l","e","d","."," ","I","n","s","t","a","l","l"," ","i","t"," ","w","i","t","h",":"," ","p","i","p"," ","i","n","s","t","a","l","l"," ","l","a","n","g","c","h","a","i","n","-","g","r","o","q">>)
       ELSE IF api_key = ""
       THEN AdapterRaise("ValueError", <<"G","R","O","Q","_","A","P","I","_","K","E","Y"," ","i","s"," ","r","e","q","u","i","r","e","d"," ","f","o","r"," ","G","r","o","q"," ","p","r","o","v","i","d","e","r">>)
       ELSE Construct("ChatGroq",
                      [model |-> ModelOr(model_name, "mixtral-8x7b-32768"),
                       temperature |-> temperature, groq_api_key |-> api_key],
                      Without(kwargs, {"api_key"}))

\* lines 309-350
create_openai_compatible(model_name, temperature, kwargs, env) ==
    LET base_url == OrUrl(KwGet(kwargs, "base_url", <<>>),
                       Getenv(env, "OPENAI_COMPATIBLE_BASE_URL", <<>>))
        api_key == Or(KwGet(kwargs, "api_key", ""),
                      Getenv(env, "OPENAI_COMPATIBLE_API_KEY", ""))
        model == Or(ModelOr(model_name, ""),
                    Or(KwGet(kwargs, "model", ""), KwGet(kwargs, "model_name", "")))
    IN IF base_url = <<>>
       THEN AdapterRaise("ValueError",
                <<"b","a","s","e","_","u","r","l"," ","i","s"," ","r","e","q","u","i","r","e","d"," ","f","o","r"," ","o","p","e","n","a","i","_","c","o","m","p","a","t","i","b","l","e"," ","p","r","o","v","i","d","e","r"," ","(","p","a","s","s"," ","i","n"," ","k","w","a","r","g","s"," ","o","r"," ","s","e","t"," ","O","P","E","N","A","I","_","C","O","M","P","A","T","I","B","L","E","_","B","A","S","E","_","U","R","L",")">>)
       ELSE IF api_key = ""
       THEN AdapterRaise("ValueError",
                <<"a","p","i","_","k","e","y"," ","i","s"," ","r","e","q","u","i","r","e","d"," ","f","o","r"," ","o","p","e","n","a","i","_","c","o","m","p","a","t","i","b","l","e"," ","p","r","o","v","i","d","e","r"," ","(","p","a","s","s"," ","i","n"," ","k","w","a","r","g","s"," ","o","r"," ","s","e","t"," ","O","P","E","N","A","I","_","C","O","M","P","A","T","I","B","L","E","_","A","P","I","_","K","E","Y",")">>)
       ELSE IF model = ""
       THEN AdapterRaise("ValueError",
                <<"m","o","d","e","l","_","n","a","m","e"," ","(","o","r"," ","m","o","d","e","l",")"," ","i","s"," ","r","e","q","u","i","r","e","d"," ","f","o","r"," ","o","p","e","n","a","i","_","c","o","m","p","a","t","i","b","l","e"," ","p","r","o","v","i","d","e","r">>)
       ELSE Construct("ChatOpenAI",
                      [model |-> model, temperature |-> temperature,
                       api_key |-> api_key, base_url |-> RStripSlash(base_url)],
                      Without(kwargs, {"base_url", "api_key", "model", "model_name"}))

\* creator(model_name, temperature, **kwargs) for the built-in creators
RunCreator(creator, model_name, temperature, kwargs, env) ==
    CASE creator = "_create_deepseek"  -> create_deepseek(model_name, temperature, kwargs, env)
      [] creator = "_create_openai"    -> create_openai(model_name, temperature, kwargs, env)
      [] creator = "_create_anthropic" -> create_anthropic(model_name, temperature, kwargs, env)
      [] creator = "_create_google"    -> create_google(model_name, temperature, kwargs, env)
      [] creator = "_create_azure"     -> create_azure(model_name, temperature, kwargs, env)
      [] creator = "_create_ollama"    -> create_ollama(model_name, temperature, kwargs, env)
      [] creator = "_create_groq"      -> create_groq(model_name, temperature, kwargs, env)
      [] creator = "_create_openai_compatible" ->
             create_openai_compatible(model_name, temperature, kwargs, env)

\* create_llm(...) through to the client: line 135 returns what the creator
\* returns and lets what it raises pass
create_llm_client(reg, provider, model_name, temperature, kwargs, env) ==
    LET delegate(r) ==
            IF r.kind = "raise"
            THEN [kind |-> "raise", exc |-> r.exc, client |-> NoClient]
            ELSE RunCreator(r.calls[1].creator, r.calls[1].model_name,
                            r.calls[1].temperature, r.calls[1].kwargs, env)
    IN Bind(create_llm(reg, provider, model_name, temperature, kwargs), delegate)

\* ---- inputs ----
AdapterProviders ==
    {<<"d","e","e","p","s","e","e","k">>, <<"o","p","e","n","a","i">>, <<"A","n","t","h","r","o","p","i","c">>, <<"g","o","o","g","l","e">>, <<"a","z","u","r","e">>, <<"o","l","l","a","m","a">>,
     <<"g","r","o","q">>, <<"o","p","e","n","a","i","_","c","o","m","p","a","t","i","b","l","e">>, <<"m","i","s","t","r","a","l">>}
\* (model_name, temperature)
ModelArgs == {<<PyNone, DefaultTemperature>>, <<PyStr(""), 7>>, <<PyStr("my-model"), 7>>}
\* **kwargs of the create_llm call; model_name and temperature are named
\* parameters of create_llm and so never arrive in kwargs
OverrideChoices ==
    {NoKwargs,
     [api_key |-> ""],
     [api_key |-> "sk-override"],
     [base_url |-> <<"h","t","t","p","s",":","/","/","p","r","o","x","y",".","e","x","a","m","p","l","e",".","o","r","g","/","v","1","/","/">>],
     [api_key |-> "sk-override", base_url |-> <<"h","t","t","p","s",":","/","/","p","r","o","x","y",".","e","x","a","m","p","l","e",".","o","r","g","/","v","1","/","/">>],
     [api_key |-> "sk-override", base_url |-> <<"h","t","t","p","s",":","/","/","p","r","o","x","y",".","e","x","a","m","p","l","e",".","o","r","g","/","v","1","/","/">>,
      model |-> "override-model"],
     [api_key |-> "sk-override", endpoint |-> "https://az.example.org",
      api_version |-> "2024-06-01"],
     [api_key |-> "sk-override", max_tokens |-> 256],
     [model |-> "override-model"]}
KeyVariables ==
    {"DEEPSEEK_API_KEY", "OPENAI_API_KEY", "ANTHROPIC_API_KEY", "GOOGLE_API_KEY",
     "AZURE_OPENAI_API_KEY", "GROQ_API_KEY", "OPENAI_COMPATIBLE_API_KEY"}
EndpointVariables ==
    {"DEEPSEEK_BASE_URL", "OLLAMA_BASE_URL", "OPENAI_COMPATIBLE_BASE_URL",
     "AZURE_OPENAI_ENDPOINT"}
Environments ==
    {[set |-> s, missing |-> m] :
        s \in {{}, KeyVariables, EndpointVariables, KeyVariables \cup EndpointVariables},
        m \in {{}, OptionalPackages}}

NoAdapterInput ==
    [provider |-> <<>>, model_name |-> PyNone, temperature |-> 0, kwargs |-> NoKwargs]
NoAdapterEnv == [set |-> {}, missing |-> {}]
NoAdapterOut == [kind |-> "", exc |-> NoToolExc, client |-> NoClient]

AdapterInit ==
    /\ adapter_pc = "idle"
    /\ adapter_in = NoAdapterInput
    /\ adapter_env = NoAdapterEnv
    /\ adapter_out = NoAdapterOut

\* LLMFactory.create_llm(provider, model_name, temperature, **kwargs) with the
\* creator it dispatches to
CreateLlmClient ==
    \E provider \in AdapterProviders, args \in ModelArgs,
       kwargs \in OverrideChoices, env \in Environments :
        /\ adapter_pc = "idle"
        /\ adapter_pc' = "done"
        /\ adapter_in' = [provider |-> provider, model_name |-> args[1],
                          temperature |-> args[2], kwargs |-> kwargs]
        /\ adapter_env' = env
        /\ adapter_out' = create_llm_client(creators, provider, args[1], args[2], kwargs, env)
        /\ UNCHANGED otherThanAdapters

\* the caller takes the client or the exception
CreateLlmClientReturn ==
    /\ adapter_pc = "done"
    /\ adapter_pc' = "idle"
    /\ adapter_in' = NoAdapterInput
    /\ adapter_env' = NoAdapterEnv
    /\ adapter_out' = NoAdapterOut
    /\ UNCHANGED otherThanAdapters

NextAdapters ==
    \/ CreateLlmClient
    \/ CreateLlmClientReturn

-----------------------------------------------------------------------------
(***************************************************************************)
(* Claims about the LLM client adapters                                    *)
(***************************************************************************)
AdapterDone == adapter_pc = "done"
CalledProvider == Lower(adapter_in.provider)
CalledBuiltin == CalledProvider \in DOMAIN PROVIDER_CONFIGS

\* the providers whose adapter needs an API key, the environment variable
\* each falls back to and the constructor keyword the key is handed over as
KeyProviders == DOMAIN PROVIDER_CONFIGS \ {<<"o","l","l","a","m","a">>}
FallbackVariable(p) ==
    CASE p = <<"d","e","e","p","s","e","e","k">>          -> "DEEPSEEK_API_KEY"
      [] p = <<"o","p","e","n","a","i">>            -> "OPENAI_API_KEY"
      [] p = <<"a","n","t","h","r","o","p","i","c">>         -> "ANTHROPIC_API_KEY"
      [] p = <<"g","o","o","g","l","e">>            -> "GOOGLE_API_KEY"
      [] p = <<"a","z","u","r","e">>             -> "AZURE_OPENAI_API_KEY"
      [] p = <<"g","r","o","q">>              -> "GROQ_API_KEY"
      [] p = <<"o","p","e","n","a","i","_","c","o","m","p","a","t","i","b","l","e">> -> "OPENAI_COMPATIBLE_API_KEY"
KeyKeyword(p) ==
    CASE p = <<"g","o","o","g","l","e">> -> "google_api_key"
      [] p = <<"g","r","o","q">>   -> "groq_api_key"
      [] OTHER          -> "api_key"
PackageOf(p) ==
    CASE p = <<"a","n","t","h","r","o","p","i","c">> -> "langchain_anthropic"
      [] p = <<"g","o","o","g","l","e">>    -> "langchain_google_genai"
      [] p = <<"o","l","l","a","m","a">>    -> "langchain_ollama"
      [] p = <<"g","r","o","q">>      -> "langchain_groq"
      [] OTHER             -> "langchain_openai"
PackageInstalled == PackageOf(CalledProvider) \notin adapter_env.missing

OverrideKey == KwGet(adapter_in.kwargs, "api_key", "")
FallbackKey == Getenv(adapter_env, FallbackVariable(CalledProvider), "")
ExpectedKey == IF OverrideKey # "" THEN OverrideKey ELSE FallbackKey

\* the exception says that the API key is required and names the provider
IsMissingCredentialError(exc, p) ==
    /\ exc.cls = "ValueError"
    /\ Contains(<<"a","p","i","_","k","e","y"," ","i","s"," ","r","e","q","u","i","r","e","d"," ","f","o","r"," ">>, Lower(exc.text))
    /\ Contains(p, Lower(exc.text))

\* the call hands no keyword to the client constructor twice
NoDuplicateKeyword ==
    adapter_out.kind = "raise" => adapter_out.exc.cls # "TypeError"

\* C12: each adapter resolves its credential as the api_key override when
\* present, else the provider's environment/config fallback; when neither is
\* present the adapter of a key-requiring provider fails with a
\* missing-credential error that names the provider and builds no client; the
\* credential-free local adapter (ollama) builds a client without any
\* credential check.
C12_CredentialResolution ==
    (AdapterDone /\ CalledBuiltin /\ PackageInstalled) =>
        /\ (CalledProvider \in KeyProviders /\ adapter_out.kind = "client") =>
              adapter_out.client.params[KeyKeyword(CalledProvider)] = ExpectedKey
        /\ (CalledProvider \in KeyProviders /\ ExpectedKey = "") =>
              /\ adapter_out.kind = "raise"
              /\ IsMissingCredentialError(adapter_out.exc, CalledProvider)
              /\ adapter_out.client = NoClient
        /\ (CalledProvider = <<"o","l","l","a","m","a">> /\ NoDuplicateKeyword) =>
              adapter_out.kind = "client"

\* the exception says that no model name could be resolved
IsMissingModelError(exc) ==
    /\ exc.cls = "ValueError"
    /\ StartsWith(exc.text, <<"m","o","d","e","l","_","n","a","m","e"," ","(","o","r"," ","m","o","d","e","l",")"," ","i","s"," ","r","e","q","u","i","r","e","d">>)
ModelOverride ==
    Or(KwGet(adapter_in.kwargs, "model", ""), KwGet(adapter_in.kwargs, "model_name", ""))

\* C13: the model name of a client is the explicit model_name argument when
\* one is given, else the provider's configured default; the missing-model
\* error is raised only for openai_compatible (whose default is empty), and
\* there only when neither model_name nor a 'model'/'model_name' override is
\* supplied - with such an override the client gets the override's model.
C13_ModelResolution ==
    (AdapterDone /\ CalledBuiltin) =>
        LET given == adapter_in.model_name
            default == PROVIDER_CONFIGS[CalledProvider]
        IN /\ adapter_out.kind = "client" =>
                 /\ adapter_out.client.params.model # ""
                 /\ adapter_out.client.params.model =
                        IF Truthy(given) THEN given.s
                        ELSE IF default # "" THEN default
                        ELSE ModelOverride
           /\ (adapter_out.kind = "raise" /\ IsMissingModelError(adapter_out.exc)) =>
                 /\ CalledProvider = <<"o","p","e","n","a","i","_","c","o","m","p","a","t","i","b","l","e">>
                 /\ ~Truthy(given)
                 /\ ModelOverride = ""
                 /\ adapter_out.client = NoClient
           /\ (Truthy(given) \/ default # "" \/ ModelOverride # "") =>
                 ~(adapter_out.kind = "raise" /\ IsMissingModelError(adapter_out.exc))

C13_Witness ==
    /\ AdapterDone
    /\ adapter_in.provider = <<"o","p","e","n","a","i","_","c","o","m","p","a","t","i","b","l","e">>
    /\ adapter_in.model_name = PyStr("")
    /\ adapter_in.kwargs =
          [api_key |-> "sk-override", base_url |-> <<"h","t","t","p","s",":","/","/","p","r","o","x","y",".","e","x","a","m","p","l","e",".","o","r","g","/","v","1","/","/">>]
    /\ adapter_out.kind = "raise"
    /\ IsMissingModelError(adapter_out.exc)

\* the override keys the adapters consume themselves
ConsumedKeys == {"api_key", "base_url", "model", "model_name", "endpoint", "api_version"}

\* C24: every adapter hands the override keys that remain after removing
\* api_key, base_url, model, model_name, endpoint and api_version to the client
\* constructor unchanged, and for no adapter and no set of overrides a key
\* reaches the constructor both explicitly and through the passthrough: no
\* call fails on a keyword given twice.
C24_PassthroughWithoutDuplicates ==
    (AdapterDone /\ CalledBuiltin) =>
        /\ NoDuplicateKeyword
        /\ adapter_out.kind = "client" =>
              \A k \in DOMAIN adapter_in.kwargs \ ConsumedKeys :
                 /\ k \in DOMAIN adapter_out.client.params
                 /\ adapter_out.client.params[k] = adapter_in.kwargs[k]

-----------------------------------------------------------------------------
(***************************************************************************)
(* Constructors: the tools, HubMindAgent, HubMindQAAgent and the           *)
(* dashboard, with the process configuration (src/config.py).  A GitHub    *)
(* token is a TLA+ string, "" standing for None and for the empty token.   *)
(***************************************************************************)

\* Config.validate(), lines 59-90: the ValueError it raises, if any
Config_validate(cfg) ==
    LET unset(name) == name \notin cfg.set
        p == cfg.provider
        fail(text) == [ok |-> FALSE, exc |-> [cls |-> "ValueError", text |-> text]]
    IN IF unset("GITHUB_TOKEN") THEN fail(<<"c","o","n","f","i","g","u","r","e"," ","t","h","e"," ","G","i","t","H","u","b"," ","t","o","k","e","n"," ","(","G","I","T","H","U","B","_","T","O","K","E","N",")">>)
       ELSE IF p = <<"o","p","e","n","a","i">> /\ unset("OPENAI_API_KEY")
       THEN fail(<<"c","o","n","f","i","g","u","r","e"," ","t","h","e"," ","L","L","M"," ","A","P","I"," ","k","e","y"," ","(","O","P","E","N","A","I","_","A","P","I","_","K","E","Y",")">>)
       ELSE IF p = <<"a","n","t","h","r","o","p","i","c">> /\ unset("ANTHROPIC_API_KEY")
       THEN fail(<<"c","o","n","f","i","g","u","r","e"," ","t","h","e"," ","L","L","M"," ","A","P","I"," ","k","e","y"," ","(","A","N","T","H","R","O","P","I","C","_","A","P","I","_","K","E","Y",")">>)
       ELSE IF p = <<"g","o","o","g","l","e">> /\ unset("GOOGLE_API_KEY")
       THEN fail(<<"c","o","n","f","i","g","u","r","e"," ","t","h","e"," ","L","L","M"," ","A","P","I"," ","k","e","y"," ","(","G","O","O","G","L","E","_","A","P","I","_","K","E","Y",")">>)
       ELSE IF p = <<"a","z","u","r","e">> /\ unset("AZURE_OPENAI_API_KEY")
       THEN fail(<<"c","o","n","f","i","g","u","r","e"," ","t","h","e"," ","L","L","M"," ","A","P","I"," ","k","e","y"," ","(","A","Z","U","R","E","_","O","P","E","N","A","I","_","A","P","I","_","K","E","Y",")">>)
       ELSE IF p = <<"a","z","u","r","e">> /\ unset("AZURE_OPENAI_ENDPOINT")
       THEN fail(<<"s","e","t"," ","A","Z","U","R","E","_","O","P","E","N","A","I","_","E","N","D","P","O","I","N","T">>)
       ELSE IF p = <<"g","r","o","q">> /\ unset("GROQ_API_KEY")
       THEN fail(<<"c","o","n","f","i","g","u","r","e"," ","t","h","e"," ","L","L","M"," ","A","P","I"," ","k","e","y"," ","(","G","R","O","Q","_","A","P","I","_","K","E","Y",")">>)
       ELSE IF p = <<"d","e","e","p","s","e","e","k">> /\ unset("DEEPSEEK_API_KEY")
       THEN fail(<<"c","o","n","f","i","g","u","r","e"," ","t","h","e"," ","L","L","M"," ","A","P","I"," ","k","e","y"," ","(","D","E","E","P","S","E","E","K","_","A","P","I","_","K","E","Y",")">>)
       ELSE IF p = <<"o","p","e","n","a","i","_","c","o","m","p","a","t","i","b","l","e">> /\ unset("OPENAI_COMPATIBLE_BASE_URL")
       THEN fail(<<"s","e","t"," ","O","P","E","N","A","I","_","C","O","M","P","A","T","I","B","L","E","_","B","A","S","E","_","U","R","L">>)
       ELSE IF p = <<"o","p","e","n","a","i","_","c","o","m","p","a","t","i","b","l","e">> /\ unset("OPENAI_COMPATIBLE_API_KEY")
       THEN fail(<<"c","o","n","f","i","g","u","r","e"," ","t","h","e"," ","L","L","M"," ","A","P","I"," ","k","e","y"," ","(","O","P","E","N","A","I","_","C","O","M","P","A","T","I","B","L","E","_","A","P","I","_","K","E","Y",")">>)
       ELSE IF p = <<"o","p","e","n","a","i","_","c","o","m","p","a","t","i","b","l","e">> /\ unset("OPENAI_COMPATIBLE_MODEL")
                                          /\ unset("LLM_MODEL")
       THEN fail(<<"s","e","t"," ","O","P","E","N","A","I","_","C","O","M","P","A","T","I","B","L","E","_","M","O","D","E","L"," ","/"," ","L","L","M","_","M","O","D","E","L">>)
       ELSE [ok |-> TRUE, exc |-> NoToolExc]

\* what a constructor call gives: the object built, or the exception raised
NoObject == [cls |-> "", tokens |-> [k \in {} |-> ""]]
Built(cls, tokens) == [kind |-> "object", exc |-> NoToolExc,
                       obj |-> [cls |-> cls, tokens |-> tokens]]
CtorRaise(exc) == [kind |-> "raise", exc |-> exc, obj |-> NoObject]

\* the keyword parameters the constructors declare
TrendingToolParams == {"github_token", "llm_provider", "llm_api_key"}   \* tool.py 29-34
PRToolParams == {}                                                      \* github_pr.py 16
IssueToolParams == {}                                                   \* github_issue.py 15
DashboardParams == {"github_token"}                                     \* dashboard.py 16

\* calling cls(github_token=...) when __init__ does not declare github_token,
\* the one keyword the callers pass
UnexpectedKeyword(cls, kwargs) ==
    [cls |-> "TypeError",
     text |-> cls \o <<".","_","_","i","n","i","t","_","_","(",")"," ","g","o","t"," ","a","n"," ","u","n","e","x","p","e","c","t","e","d"," ","k","e","y","w","o","r","d"," ","a","r","g","u","m","e","n","t"," ","'","g","i","t","h","u","b","_","t","o","k","e","n","'">>]

\* GitHubTrendingTool(**kwargs): token = github_token or Config.GITHUB_TOKEN
GitHubTrendingTool(kwargs, cfg) ==
    IF DOMAIN kwargs \subseteq TrendingToolParams
    THEN Built("GitHubTrendingTool",
               [github |-> Or(KwGet(kwargs, "github_token", ""),
                              Getenv(cfg, "GITHUB_TOKEN", ""))])
    ELSE CtorRaise(UnexpectedKeyword(<<"G","i","t","H","u","b","T","r","e","n","d","i","n","g","T","o","o","l">>, kwargs))

\* GitHubPRTool(**kwargs): self.github = Github(Config.GITHUB_TOKEN)
GitHubPRTool(kwargs, cfg) ==
    IF DOMAIN kwargs \subseteq PRToolParams
    THEN Built("GitHubPRTool", [github |-> Getenv(cfg, "GITHUB_TOKEN", "")])
    ELSE CtorRaise(UnexpectedKeyword(<<"G","i","t","H","u","b","P","R","T","o","o","l">>, kwargs))

\* GitHubIssueTool(**kwargs): self.github = Github(Config.GITHUB_TOKEN)
GitHubIssueTool(kwargs, cfg) ==
    IF DOMAIN kwargs \subseteq IssueToolParams
    THEN Built("GitHubIssueTool", [github |-> Getenv(cfg, "GITHUB_TOKEN", "")])
    ELSE CtorRaise(UnexpectedKeyword(<<"G","i","t","H","u","b","I","s","s","u","e","T","o","o","l">>, kwargs))

\* DeveloperDashboard(**kwargs): token = github_token or Config.GITHUB_TOKEN
DeveloperDashboard(kwargs, cfg) ==
    IF DOMAIN kwargs \subseteq DashboardParams
    THEN Built("DeveloperDashboard",
               [github |-> Or(KwGet(kwargs, "github_token", ""),
                              Getenv(cfg, "GITHUB_TOKEN", ""))])
    ELSE CtorRaise(UnexpectedKeyword(<<"D","e","v","e","l","o","p","e","r","D","a","s","h","b","o","a","r","d">>, kwargs))

\* the keyword arguments the backend passes to HubMindAgent(...) and
\* HubMindQAAgent(...) (main.py 351-355, 362-366), with their defaults (None);
\* model_name, temperature, llm_base_url and llm_model are never passed
NoAgentArgs == [provider |-> <<>>, github_token |-> "", llm_api_key |-> ""]

\* (model_name or Config.LLM_MODEL or None) as create_llm takes it
ConfiguredModel(cfg) ==
    IF "LLM_MODEL" \in cfg.set THEN PyStr(EnvValue("LLM_MODEL")) ELSE PyNone

\* llm_kwargs of the agent constructors: api_key when llm_api_key is given;
\* for openai_compatible, model when a model name is configured
LlmKwargs(provider, llm_api_key, model_name, with_model) ==
    LET keys == (IF llm_api_key # "" THEN {"api_key"} ELSE {})
                  \cup (IF with_model /\ provider = <<"o","p","e","n","a","i","_","c","o","m","p","a","t","i","b","l","e">> /\ Truthy(model_name)
                        THEN {"model"} ELSE {})
    IN [k \in keys |-> IF k = "api_key" THEN llm_api_key ELSE model_name.s]

\* HubMindAgent.__init__, hubmind_agent.py 46-78: validation, the LLM client,
\* then the three tools in order; the first exception ends the construction
HubMindAgent_init(args, cfg, reg) ==
    LET use_overrides == args.github_token # "" /\ args.llm_api_key # ""
        valid == IF use_overrides THEN [ok |-> TRUE, exc |-> NoToolExc]
                 ELSE Config_validate(cfg)
        provider == Lower(OrUrl(args.provider, cfg.provider))
        model_name == ConfiguredModel(cfg)
        llm == create_llm_client(reg, provider, model_name, DefaultTemperature,
                                 LlmKwargs(provider, args.llm_api_key, model_name, TRUE), cfg)
        tool_kwargs == [github_token |-> args.github_token]
        trending_tool == GitHubTrendingTool(tool_kwargs, cfg)
        pr_tool == GitHubPRTool(tool_kwargs, cfg)
        issue_tool == GitHubIssueTool(tool_kwargs, cfg)
    IN IF ~valid.ok THEN CtorRaise(valid.exc)
       ELSE IF llm.kind = "raise" THEN CtorRaise(llm.exc)
       ELSE IF trending_tool.kind = "raise" THEN CtorRaise(trending_tool.exc)
       ELSE IF pr_tool.kind = "raise" THEN CtorRaise(pr_tool.exc)
       ELSE IF issue_tool.kind = "raise" THEN CtorRaise(issue_tool.exc)
       ELSE Built("HubMindAgent",
                  [trending |-> trending_tool.obj.tokens.github,
                   pr |-> pr_tool.obj.tokens.github,
                   issue |-> issue_tool.obj.tokens.github])

\* HubMindQAAgent.__init__, qa_agent.py 19-53
HubMindQAAgent_init(args, cfg, reg) ==
    LET use_overrides == args.github_token # "" /\ args.llm_api_key # ""
        valid == IF use_overrides THEN [ok |-> TRUE, exc |-> NoToolExc]
                 ELSE Config_validate(cfg)
        provider == OrUrl(args.provider, cfg.provider)
        model_name == ConfiguredModel(cfg)
        llm == create_llm_client(reg, provider, model_name, 2,
                                 LlmKwargs(provider, args.llm_api_key, model_name, FALSE), cfg)
    IN IF ~valid.ok THEN CtorRaise(valid.exc)
       ELSE IF llm.kind = "raise" THEN CtorRaise(llm.exc)
       ELSE Built("HubMindQAAgent",
                  [github |-> Or(args.github_token, Getenv(cfg, "GITHUB_TOKEN", ""))])

-----------------------------------------------------------------------------
(***************************************************************************)
(* The backend (src/backend/main.py): requests served by coroutines on one *)
(* event loop, the lazily built default instances and the per-user         *)
(* instances.  A coroutine holds the loop from the moment it is scheduled  *)
(* until it awaits or returns; backend texts are character sequences.      *)
(***************************************************************************)
Endpoints == {"chat", "qa", "trending", "prs", "analyze_pr", "create_issue", "health_repo"}

\* the module-level default each endpoint falls back to (lines 135-177)
DefaultKinds == {"agent", "qa_agent", "trending_tool", "pr_tool", "issue_tool", "dashboard"}
DefaultOf(endpoint) ==
    CASE endpoint = "chat"         -> "agent"
      [] endpoint = "qa"           -> "qa_agent"
      [] endpoint = "trending"     -> "trending_tool"
      [] endpoint = "prs"          -> "pr_tool"
      [] endpoint = "analyze_pr"   -> "pr_tool"
      [] endpoint = "create_issue" -> "issue_tool"
      [] endpoint = "health_repo"  -> "dashboard"

\* the user of a request as get_current_user_optional and get_user_settings
\* give it: no user, or a user with the tokens of the settings row
Anonymous == [present |-> FALSE, github_token |-> "", llm_api_key |-> "", llm_provider |-> <<>>]
Alice == [present |-> TRUE, github_token |-> "ghp_alice", llm_api_key |-> "sk-alice",
          llm_provider |-> <<"o","p","e","n","a","i">>]
Bob == [present |-> TRUE, github_token |-> "ghp_bob", llm_api_key |-> "", llm_provider |-> <<>>]
Carol == [present |-> TRUE, github_token |-> "", llm_api_key |-> "", llm_provider |-> <<>>]

ConversationTurn(role, content) == [role |-> role, content |-> content]
EarlierTurns == <<ConversationTurn("user", <<"h","i">>), ConversationTurn("assistant", <<"h","e","l","l","o">>)>>

Request(endpoint, user, message, history) ==
    [endpoint |-> endpoint, user |-> user, message |-> message, chat_history |-> history]
RequestChoices ==
    {Request("chat", Anonymous, <<"l","i","s","t"," ","P","R","s">>, <<>>),
     Request("chat", Anonymous, <<"a","n","d"," ","i","s","s","u","e","s","?">>, EarlierTurns),
     Request("chat", Alice, <<"a","n","d"," ","i","s","s","u","e","s","?">>, EarlierTurns),
     Request("qa", Anonymous, <<>>, <<>>),
     Request("qa", Alice, <<>>, <<>>),
     Request("qa", Carol, <<>>, <<>>),
     Request("trending", Anonymous, <<>>, <<>>),
     Request("trending", Bob, <<>>, <<>>),
     Request("prs", Anonymous, <<>>, <<>>),
     Request("prs", Bob, <<>>, <<>>),
     Request("analyze_pr", Anonymous, <<>>, <<>>),
     Request("create_issue", Anonymous, <<>>, <<>>),
     Request("create_issue", Alice, <<>>, <<>>),
     Request("health_repo", Anonymous, <<>>, <<>>),
     Request("health_repo", Bob, <<>>, <<>>)}

\* the process configurations: Config is read from the environment once
ProcessConfigs ==
    {[set |-> {"GITHUB_TOKEN", "DEEPSEEK_API_KEY"}, missing |-> {}, provider |-> <<"d","e","e","p","s","e","e","k">>],
     [set |-> {"DEEPSEEK_API_KEY"}, missing |-> {}, provider |-> <<"d","e","e","p","s","e","e","k">>],
     [set |-> {"GITHUB_TOKEN"}, missing |-> OptionalPackages, provider |-> <<"o","l","l","a","m","a">>]}

\* the configuration before src/config.py is imported: nothing read yet
NotLoaded == [set |-> {}, missing |-> {}, provider |-> <<>>]

NoInstance == [id |-> 0, obj |-> NoObject]
NoResponse == [status |-> 0, detail |-> <<>>, response |-> <<>>, chat_history |-> <<>>]

\* Cls() of a getter and Cls(<user's credentials>) of an endpoint
Construct_default(kind, cfg, reg) ==
    CASE kind = "agent"         -> HubMindAgent_init(NoAgentArgs, cfg, reg)
      [] kind = "qa_agent"      -> HubMindQAAgent_init(NoAgentArgs, cfg, reg)
      [] kind = "trending_tool" -> GitHubTrendingTool(NoKwargs, cfg)
      [] kind = "pr_tool"       -> GitHubPRTool(NoKwargs, cfg)
      [] kind = "issue_tool"    -> GitHubIssueTool(NoKwargs, cfg)
      [] kind = "dashboard"     -> DeveloperDashboard(NoKwargs, cfg)
Construct_for_user(kind, user, cfg, reg) ==
    LET agent_args == [provider |-> OrUrl(user.llm_provider, cfg.provider),
                       github_token |-> user.github_token,
                       llm_api_key |-> user.llm_api_key]
        tool_kwargs == [github_token |-> user.github_token]
    IN CASE kind = "agent"         -> HubMindAgent_init(agent_args, cfg, reg)
         [] kind = "qa_agent"      -> HubMindQAAgent_init(agent_args, cfg, reg)
         [] kind = "trending_tool" -> GitHubTrendingTool(tool_kwargs, cfg)
         [] kind = "pr_tool"       -> GitHubPRTool(tool_kwargs, cfg)
         [] kind = "issue_tool"    -> GitHubIssueTool(tool_kwargs, cfg)
         [] kind = "dashboard"     -> DeveloperDashboard(tool_kwargs, cfg)

\* whether the endpoint builds an instance for the user instead of taking the
\* default: the agents when the settings hold a GitHub token or an LLM key
\* (lines 346-350, 357-361), the tools when they hold a GitHub token (437-438)
BuildsForUser(endpoint, user) ==
    /\ user.present
    /\ IF endpoint \in {"chat", "qa"}
       THEN user.github_token # "" \/ user.llm_api_key # ""
       ELSE user.github_token # ""

\* the chat endpoint's history update (lines 411-414, 422-424); first the
\* same without the user turn
AppendedAnswerOnly(history, message, response) ==
    history \o <<ConversationTurn("assistant", response)>>
Appended(history, message, response) ==
    history \o <<ConversationTurn("user", message), ConversationTurn("assistant", response)>>

\* what an endpoint answers when e was raised before the invocation: the chat
\* endpoint's own handler (lines 417-425), HTTPException(500) elsewhere
FailureResponse(req, e) ==
    IF req.endpoint = "chat"
    THEN [status |-> 200, detail |-> <<>>,
          response |-> <<"s","e","r","v","e","r"," ","e","r","r","o","r",":"," ">> \o e.text,
          chat_history |-> Appended(req.chat_history, req.message, <<"s","e","r","v","e","r"," ","e","r","r","o","r",":"," ">> \o e.text)]
    ELSE [status |-> 500, detail |-> e.text, response |-> <<>>, chat_history |-> <<>>]

\* the event loop runs no coroutine, so that it can schedule one; first the
\* same for handlers that do not wait for the loop
LoopNeverHeld == TRUE
LoopFree == loop_owner = 0

BackendInit ==
    /\ config = NotLoaded
    /\ defaults = [k \in DefaultKinds |-> NoInstance]
    /\ built = [k \in DefaultKinds |-> 0]
    /\ made = 0
    /\ loop_owner = 0
    /\ requests = <<>>

SetRequest(r, fields) ==
    [requests EXCEPT ![r] = [f \in DOMAIN @ |-> IF f \in DOMAIN fields THEN fields[f] ELSE @[f]]]

\* backend/main.py line 29 imports config: the class attributes of Config
\* read the environment, once for the life of the process
LoadConfig ==
    /\ config = NotLoaded
    /\ config' \in ProcessConfigs
    /\ UNCHANGED <<defaults, built, made, loop_owner, requests>>
    /\ UNCHANGED otherThanBackend

\* a request arrives and waits for the event loop; the server accepts
\* requests once its modules are imported
Arrive ==
    \E req \in RequestChoices :
        /\ config # NotLoaded
        /\ Len(requests) < MaxRequests
        /\ requests' = Append(requests,
                [req |-> req, pc |-> "queued", held |-> NoInstance, shared |-> FALSE,
                 response |-> NoResponse])
        /\ UNCHANGED <<config, defaults, built, made, loop_owner>>
        /\ UNCHANGED otherThanBackend

\* the loop schedules the endpoint coroutine of request r; the coroutine
\* decides between the user's own instance and the default, builds the user's
\* instance or reads the module-level default
Schedule(r) ==
    LET q == requests[r]
        kind == DefaultOf(q.req.endpoint)
        own == Construct_for_user(kind, q.req.user, config, creators)
    IN
    /\ q.pc = "queued"
    /\ LoopFree
    /\ IF BuildsForUser(q.req.endpoint, q.req.user)
       THEN IF own.kind = "raise"
            THEN /\ requests' = SetRequest(r, [pc |-> "responded",
                                               response |-> FailureResponse(q.req, own.exc)])
                 /\ UNCHANGED <<made, loop_owner>>
            ELSE /\ requests' = SetRequest(r, [pc |-> "ready",
                                               held |-> [id |-> made + 1, obj |-> own.obj]])
                 /\ made' = made + 1
                 /\ loop_owner' = r
       ELSE IF defaults[kind] = NoInstance
            THEN /\ requests' = SetRequest(r, [pc |-> "building"])
                 /\ loop_owner' = r
                 /\ UNCHANGED made
            ELSE /\ requests' = SetRequest(r, [pc |-> "ready", held |-> defaults[kind],
                                               shared |-> TRUE])
                 /\ loop_owner' = r
                 /\ UNCHANGED made
    /\ UNCHANGED <<config, defaults, built>>
    /\ UNCHANGED otherThanBackend

\* the getter found None: "_x = Cls(); return _x"
BuildDefault(r) ==
    LET q == requests[r]
        kind == DefaultOf(q.req.endpoint)
        new == Construct_default(kind, config, creators)
    IN
    /\ q.pc = "building"
    /\ IF new.kind = "raise"
       THEN /\ requests' = SetRequest(r, [pc |-> "responded",
                                          response |-> FailureResponse(q.req, new.exc)])
            /\ loop_owner' = 0
            /\ UNCHANGED <<defaults, built, made>>
       ELSE /\ defaults' = [defaults EXCEPT ![kind] = [id |-> made + 1, obj |-> new.obj]]
            /\ built' = [built EXCEPT ![kind] = @ + 1]
            /\ made' = made + 1
            /\ requests' = SetRequest(r, [pc |-> "ready", shared |-> TRUE,
                                          held |-> [id |-> made + 1, obj |-> new.obj]])
            /\ UNCHANGED loop_owner
    /\ UNCHANGED config
    /\ UNCHANGED otherThanBackend

\* the invocation starts: agent.chat goes to a worker thread through
\* run_in_executor and the coroutine awaits it (lines 389-409); every other
\* endpoint calls its agent or tool in the coroutine itself
Invoke(r) ==
    LET q == requests[r] IN
    /\ q.pc = "ready"
    /\ requests' = SetRequest(r, [pc |-> "in_flight"])
    /\ loop_owner' = IF q.req.endpoint = "chat" THEN 0 ELSE loop_owner
    /\ UNCHANGED <<config, defaults, built, made>>
    /\ UNCHANGED otherThanBackend

\* the invocation returns (or raises, for the endpoints whose callee can
\* raise) and the coroutine answers; the chat coroutine first has to be
\* resumed by the loop
Complete(r) ==
    LET q == requests[r] IN
    \E raised \in BOOLEAN :
        /\ q.pc = "in_flight"
        /\ raised => q.req.endpoint = "trending"
        /\ q.req.endpoint = "chat" => LoopFree
        /\ requests' = SetRequest(r,
              [pc |-> "responded",
               response |->
                  IF raised THEN FailureResponse(q.req, [cls |-> "GithubException",
                                                          text |-> <<"5","0","2"," ","B","a","d"," ","G","a","t","e","w","a","y">>])
                  ELSE IF q.req.endpoint = "chat"
                  THEN [status |-> 200, detail |-> <<>>, response |-> <<"a","n","s","w","e","r">>,
                        chat_history |-> Appended(q.req.chat_history, q.req.message, <<"a","n","s","w","e","r">>)]
                  ELSE [status |-> 200, detail |-> <<>>, response |-> <<>>,
                        chat_history |-> <<>>]])
        /\ loop_owner' = 0
        /\ UNCHANGED <<config, defaults, built, made>>
        /\ UNCHANGED otherThanBackend

NextBackend ==
    \/ LoadConfig
    \/ Arrive
    \/ \E r \in DOMAIN requests : Schedule(r)
    \/ \E r \in DOMAIN requests : BuildDefault(r)
    \/ \E r \in DOMAIN requests : Invoke(r)
    \/ \E r \in DOMAIN requests : Complete(r)

-----------------------------------------------------------------------------
(***************************************************************************)
(* Claims about construction, the default instances and the event loop     *)
(***************************************************************************)
Served == {r \in DOMAIN requests : requests[r].pc \in {"ready", "in_flight", "responded"}}
ConfigUsable == Config_validate(config).ok /\ config.missing = {}

\* the token the instance of request r has to be bound to
ExpectedToken(r) ==
    IF requests[r].req.user.github_token # "" THEN requests[r].req.user.github_token
    ELSE Getenv(config, "GITHUB_TOKEN", "")

\* C14: constructing a HubMindAgent binds every tool of its Tool Set (the
\* trending, PR and issue tools) to the user's GitHub token when one is
\* supplied and to the process-default token otherwise; an agent built for a
\* user's credentials is built for that invocation and is never the shared
\* default instance.
C14_ToolSetBoundToCredential ==
    \A r \in Served :
        (requests[r].req.endpoint = "chat" /\ ConfigUsable) =>
            /\ requests[r].held.obj.cls = "HubMindAgent"
            /\ \A tool \in {"trending", "pr", "issue"} :
                  requests[r].held.obj.tokens[tool] = ExpectedToken(r)
            /\ BuildsForUser("chat", requests[r].req.user) =>
                  /\ ~requests[r].shared
                  /\ requests[r].held # defaults["agent"]

\* C15: each shared default instance (of get_agent, get_qa_agent,
\* get_trending_tool, get_pr_tool, get_issue_tool, get_dashboard) is built at
\* most once per process under any interleaving of concurrent requests, and
\* every request that obtains the default holds that one instance (a
\* construction that raises builds no instance and leaves the default unset).
C15_DefaultsBuiltOnce ==
    /\ \A k \in DefaultKinds :
          /\ built[k] <= 1
          /\ built[k] = 0 <=> defaults[k] = NoInstance
    /\ \A r \in Served :
          requests[r].shared =>
              /\ requests[r].held # NoInstance
              /\ requests[r].held = defaults[DefaultOf(requests[r].req.endpoint)]
    /\ \A r1, r2 \in Served :
          (requests[r1].shared /\ requests[r2].shared
              /\ DefaultOf(requests[r1].req.endpoint) = DefaultOf(requests[r2].req.endpoint))
            => requests[r1].held.id = requests[r2].held.id

C15_Witness ==
    /\ Len(requests) >= 2
    /\ requests[1].req = Request("prs", Anonymous, <<>>, <<>>)
    /\ requests[2].req = Request("analyze_pr", Anonymous, <<>>, <<>>)
    /\ requests[1].pc = "responded"
    /\ requests[2].pc = "responded"
    /\ requests[1].shared /\ requests[2].shared
    /\ requests[1].held = requests[2].held
    /\ built["pr_tool"] = 1
    /\ made = 1

\* C16: a blocking agent invocation made while serving a request runs on a
\* worker thread: while a chat or QA invocation is in flight the event loop
\* is free to start serving another request.
C16_AgentInvocationOffloaded ==
    \A r \in DOMAIN requests :
        (requests[r].pc = "in_flight" /\ requests[r].req.endpoint \in {"chat", "qa"})
            => LoopFree

-----------------------------------------------------------------------------
(***************************************************************************)
(* GitHubPRTool and GitHubIssueTool methods called on their own            *)
(* (src/tools/github_pr.py, src/tools/github_issue.py).                    *)
(***************************************************************************)

\* A pull request as repo.get_pulls(state="all") delivers it: state is "open"
\* or "closed", and merged tells whether a closed one was merged.
Pull(n, state, merged, today, comments, review_comments, additions, deletions) ==
    [number |-> n, title |-> <<"C","h","a","n","g","e">>, state |-> state, merged |-> merged,
     author |-> <<"a","l","i","c","e">>, created_at |-> <<"2","0","2","6","-","0","1","-","0","1","T","0","8",":","0","0",":","0","0">>,
     updated_at |-> <<"2","0","2","6","-","0","1","-","0","2","T","0","9",":","0","0",":","0","0">>, updated_today |-> today,
     comments |-> comments, review_comments |-> review_comments,
     additions |-> additions, deletions |-> deletions,
     url |-> <<"h","t","t","p","s",":","/","/","g","i","t","h","u","b",".","c","o","m","/","o","/","r","/","p","u","l","l","/">> \o Digits(n)]

\* (state, merged) of the pull requests GitHub delivers
PullStates == {<<<<"o","p","e","n">>, FALSE>>, <<<<"c","l","o","s","e","d">>, FALSE>>, <<<<"c","l","o","s","e","d">>, TRUE>>}

\* the pull requests _calculate_value_score is applied to
ScoredPulls ==
    {Pull(n, sm[1], sm[2], TRUE, c, rc, a, d) :
        n \in {1, 2}, sm \in PullStates, c \in {0, 1, 5}, rc \in {0, 2},
        a \in {0, 33, 250, 1000, 1500}, d \in {0, 40, 500, 700}}

Listed1 == Pull(1, <<"o","p","e","n">>, FALSE, TRUE, 1, 0, 10, 0)
Listed2 == Pull(2, <<"o","p","e","n">>, FALSE, TRUE, 4, 1, 120, 30)
Listed3 == Pull(3, <<"c","l","o","s","e","d">>, TRUE, TRUE, 10, 0, 0, 0)
Listed4 == Pull(4, <<"o","p","e","n">>, FALSE, FALSE, 12, 3, 900, 100)
Listed5 == Pull(5, <<"c","l","o","s","e","d">>, FALSE, TRUE, 3, 4, 2000, 600)

ListedUniverse == {Listed1, Listed2, Listed3, Listed4, Listed5}

\* what repo.get_pulls lists: up to MaxListed distinct pull requests
Listings ==
    {s \in UNION {[1..n -> ListedUniverse] : n \in 0..MaxListed} :
        \A i, j \in DOMAIN s : i # j => s[i] # s[j]}

ListingFailures == {{}, {"get_repo"}, {"get_pulls"}}

ClassifiedTexts ==
    {<<>>, <<"A","p","p"," ","C","R","A","S","H"," ","o","n"," ","s","t","a","r","t">>, <<"P","l","e","a","s","e"," ","a","d","d"," ","d","a","r","k"," ","m","o","d","e">>, <<"U","p","d","a","t","e"," ","t","h","e"," ","R","E","A","D","M","E">>,
     <<"H","o","w"," ","d","o"," ","I"," ","i","n","s","t","a","l","l","?">>, <<"N","e","w"," ","f","e","a","t","u","r","e"," ","i","s"," ","b","r","o","k","e","n">>, <<"U","r","g","e","n","t",":"," ","i","m","p","r","o","v","e"," ","t","h","e"," ","d","o","c","s">>,
     <<"D","e","b","u","g","g","i","n","g"," ","t","u","t","o","r","i","a","l">>, <<"U","R","G","E","N","T"," ","g","u","i","d","e">>, <<"C","r","i","t","i","c","a","l"," ","q","u","e","s","t","i","o","n">>}

\* a line of n characters, the digits in turn
LineOf(n) == [i \in 1..n |-> DigitChars[(i % 10) + 1]]

\* first lines of TitleLimit - MaxExcess .. TitleLimit + MaxExcess characters
LongLines == {LineOf(n) : n \in (100 - MaxExcess)..(100 + MaxExcess)}

\* the texts _parse_issue_text is applied to: empty, blank, one line, several
\* lines, surrounded by whitespace, and first lines around 100 characters
ParsedTexts ==
    {<<>>, <<" "," "," ">>, <<"C","r","a","s","h"," ","o","n"," ","s","t","a","r","t">>, <<"F","i","x"," ","c","r","a","s","h"," ","o","n"," ","s","t","a","r","t","u","p","\n","S","t","e","p","s",":"," ","o","p","e","n"," ","a","p","p",","," ","i","t"," ","c","r","a","s","h","e","s"," ","i","m","m","e","d","i","a","t","e","l","y">>,
     <<" "," ","A","d","d"," ","d","a","r","k"," ","m","o","d","e"," ","\n","\n","P","l","e","a","s","e"," ","a","d","d"," ","i","t",".","\n","T","h","a","n","k","s","\n">>, <<"\n","\n","U","p","d","a","t","e"," ","t","h","e"," ","R","E","A","D","M","E","\n","s","e","e"," ","t","h","e"," ","g","u","i","d","e">>}
        \cup LongLines
        \cup {l \o <<"\n","m","o","r","e"," ","d","e","t","a","i","l","s">> : l \in LongLines}
        \cup {<<" "," ">> \o l : l \in LongLines}

\* issue n of a repository whose issues all report a crash; every fourth one
\* is closed
CrashIssue(n) ==
    [Issue1 EXCEPT !.number = n, !.title = <<"C","r","a","s","h"," ","r","e","p","o","r","t"," ">> \o Digits(n),
                   !.state = IF n % 4 = 0 THEN <<"c","l","o","s","e","d">> ELSE <<"o","p","e","n">>,
                   !.url = IssueUrl(n)]

\* the issues the repository holds when create_issue_from_text is called
Repositories ==
    {<<>>, InitialIssues} \cup {[n \in 1..k |-> CrashIssue(n)] : k \in {3, MaxSimilar}}

CreatedTexts ==
    {<<>>, <<"C","r","a","s","h"," ","o","n"," ","s","t","a","r","t">>, <<"F","i","x"," ","c","r","a","s","h"," ","o","n"," ","s","t","a","r","t","u","p","\n","S","t","e","p","s",":"," ","o","p","e","n"," ","a","p","p",","," ","i","t"," ","c","r","a","s","h","e","s"," ","i","m","m","e","d","i","a","t","e","l","y">>,
     <<"H","o","w"," ","d","o"," ","I"," ","i","n","s","t","a","l","l","?">>, <<"R","E","P","O","R","T">>}

CreateFailures == {{}, {"get_issues"}, {"create_issue"}, {"get_repo"},
                   {"get_issues", "create_issue"}}

NoMethodInput ==
    [pr |-> Listed1, pulls |-> <<>>, limit |-> 10, min_comments |-> 3, fails |-> {},
     text |-> <<>>, issues |-> <<>>]

MethodInit ==
    /\ method_pc = "idle"
    /\ method_name = ""
    /\ method_in = NoMethodInput
    /\ method_out = NoVal

MethodCall(name, input, out) ==
    /\ method_pc = "idle"
    /\ method_pc' = "done"
    /\ method_name' = name
    /\ method_in' = input
    /\ method_out' = out
    /\ UNCHANGED otherThanMethods

\* the calls made: one record of arguments (and of what GitHub does) each
ScoreCalls == {[NoMethodInput EXCEPT !.pr = pr] : pr \in ScoredPulls}

ValuablePrsCalls ==
    {[NoMethodInput EXCEPT !.pulls = pulls, !.limit = limit, !.min_comments = mc,
                           !.fails = fails] :
        pulls \in Listings, limit \in {0, 1, 2, 10}, mc \in {3, 0, 5},
        fails \in ListingFailures}

ClassifyCalls == {[NoMethodInput EXCEPT !.text = text] : text \in ClassifiedTexts}

\* self._calculate_value_score(pr)
CalculateValueScore ==
    \E call \in ScoreCalls :
        MethodCall("_calculate_value_score", call, calculate_value_score(call.pr))

\* tool.get_valuable_prs(repo, limit, min_comments)
ValuablePrs ==
    \E call \in ValuablePrsCalls :
        MethodCall("get_valuable_prs", call,
                   get_valuable_prs(call.pulls, call.limit, call.min_comments,
                                    call.fails, <<>>).out)

\* tool.classify_issue(text)
ClassifyIssue ==
    \E call \in ClassifyCalls :
        MethodCall("classify_issue", call, classify_issue(call.text))

ParseCalls == {[NoMethodInput EXCEPT !.text = text] : text \in ParsedTexts}

\* tool._parse_issue_text(text)
ParseIssueText ==
    \E call \in ParseCalls :
        MethodCall("_parse_issue_text", call, parse_issue_text(call.text))

CreateCalls ==
    {[NoMethodInput EXCEPT !.text = text, !.issues = issues, !.fails = fails] :
        text \in CreatedTexts, issues \in Repositories, fails \in CreateFailures}

\* tool.create_issue_from_text(repo, text): what it returns, the GitHub calls
\* it made and the issues of the repository afterwards
CreateIssue ==
    \E call \in CreateCalls :
        MethodCall("create_issue_from_text", call,
                   create_issue_from_text(call.issues, call.text, <<>>, <<>>, call.fails))

\* the caller takes the value and the tool is ready for the next call
MethodReturn ==
    /\ method_pc = "done"
    /\ method_pc' = "idle"
    /\ method_name' = ""
    /\ method_in' = NoMethodInput
    /\ method_out' = NoVal
    /\ UNCHANGED otherThanMethods

NextMethods ==
    \/ CalculateValueScore
    \/ ValuablePrs
    \/ ClassifyIssue
    \/ ParseIssueText
    \/ CreateIssue
    \/ MethodReturn

-----------------------------------------------------------------------------
(***************************************************************************)
(* Claims about the tool methods.                                          *)
(***************************************************************************)

MethodDone(name) == method_pc = "done" /\ method_name = name

\* the value-score formula of the specification, in hundredths, for a pull
\* request with the given five inputs
FormulaScore(comments, review_comments, additions, deletions, merged, open) ==
    2 * comments * 100 + 3 * review_comments * 100
        + (IF additions < 1000 THEN additions ELSE 1000)
        + (IF deletions < 500 THEN deletions ELSE 500)
        + (IF merged THEN 2000 ELSE IF open THEN 500 ELSE 0)

\* C18: for every pull request the value score is 2*comments +
\* 3*review_comments + min(additions/100, 10) + min(deletions/100, 5) + (20 if
\* the pull request is merged, 5 if it is open, 0 otherwise), rounded to two
\* decimal places, and so depends on those five inputs only; a merged pull
\* request with 5 comments, 2 review comments, 250 additions and 40 deletions
\* scores 38.90.
C18_ValueScoreFormula ==
    MethodDone("_calculate_value_score") =>
        LET pr == method_in.pr
        IN method_out = FormulaScore(pr.comments, pr.review_comments, pr.additions,
                                     pr.deletions, pr.merged, pr.state = <<"o","p","e","n">>)

\* the positions of the listing that hold a pull request updated today with at
\* least min_comments comments
Eligible(pulls, min_comments) ==
    {i \in DOMAIN pulls : pulls[i].updated_today /\ pulls[i].comments >= min_comments}

\* C19: when the listing succeeds, get_valuable_prs(repo, limit, min_comments)
\* returns exactly the pull requests updated today with comments >=
\* min_comments (default 3), ordered by value score descending and cut to the
\* first limit entries of that order; with three pull requests updated today
\* with 1, 4 and 10 comments it returns the two with 4 and 10 comments,
\* highest score first.
C19_ValuablePrsFilteredSortedCut ==
    (MethodDone("get_valuable_prs") /\ method_in.fails = {}) =>
        LET pulls == method_in.pulls
            elig == Eligible(pulls, method_in.min_comments)
            out == method_out.val.items
            shown(i) == \E k \in DOMAIN out : out[k].number = pulls[i].number
        IN /\ method_out.kind = "return"
           /\ method_out.val.py = "list"
           /\ Len(out) = IF method_in.limit < Cardinality(elig)
                         THEN method_in.limit ELSE Cardinality(elig)
           /\ \A k \in DOMAIN out :
                 \E i \in elig :
                    /\ out[k].number = pulls[i].number
                    /\ out[k].comments = pulls[i].comments
                    /\ out[k].title = pulls[i].title
                    /\ out[k].value_score = calculate_value_score(pulls[i])
           /\ \A k, m \in DOMAIN out : k # m => out[k].number # out[m].number
           /\ \A k, m \in DOMAIN out : k < m => out[k].value_score >= out[m].value_score
           /\ \A i \in elig :
                 ~shown(i) => \A k \in DOMAIN out :
                                 out[k].value_score >= calculate_value_score(pulls[i])

\* three pull requests updated today with 1, 4 and 10 comments, listed lowest
\* score first, default threshold: the two with 10 and 4 comments come back,
\* highest score first
C19_Witness ==
    /\ MethodDone("get_valuable_prs")
    /\ method_in.fails = {}
    /\ method_in.pulls = <<Listed1, Listed2, Listed3>>
    /\ method_in.min_comments = 3
    /\ method_in.limit = 10
    /\ Len(method_out.val.items) = 2
    /\ method_out.val.items[1].comments = 10
    /\ method_out.val.items[2].comments = 4
    /\ method_out.val.items[1].value_score > method_out.val.items[2].value_score

\* keyword occurs in text at some position, letters compared without case
OccursIgnoringCase(keyword, text) ==
    \E i \in 0..(Len(text) - Len(keyword)) :
        \A j \in 1..Len(keyword) : LowerChar(text[i + j]) = LowerChar(keyword[j])

AnyOccurs(keywords, text) ==
    \E k \in DOMAIN keywords : OccursIgnoringCase(keywords[k], text)

\* C20: classify_issue takes the type from the first keyword list that matches,
\* in the order bug, feature, documentation, else "question", keywords being
\* matched as case-insensitive substrings of the whole text; the priority is
\* "high" exactly when an urgent keyword occurs, else "medium", whatever the
\* type; suggested_labels is [type, priority].
C20_ClassifyFirstMatch ==
    MethodDone("classify_issue") =>
        LET text == method_in.text
            c == method_out
        IN /\ c.type = <<"b","u","g">> <=> AnyOccurs(bug_keywords, text)
           /\ c.type = <<"f","e","a","t","u","r","e">> <=>
                 (~AnyOccurs(bug_keywords, text) /\ AnyOccurs(feature_keywords, text))
           /\ c.type = <<"d","o","c","u","m","e","n","t","a","t","i","o","n">> <=>
                 /\ ~AnyOccurs(bug_keywords, text)
                 /\ ~AnyOccurs(feature_keywords, text)
                 /\ AnyOccurs(doc_keywords, text)
           /\ c.type = <<"q","u","e","s","t","i","o","n">> <=>
                 /\ ~AnyOccurs(bug_keywords, text)
                 /\ ~AnyOccurs(feature_keywords, text)
                 /\ ~AnyOccurs(doc_keywords, text)
           /\ c.priority = <<"h","i","g","h">> <=> AnyOccurs(urgent_keywords, text)
           /\ c.priority = <<"m","e","d","i","u","m">> <=> ~AnyOccurs(urgent_keywords, text)
           /\ c.suggested_labels = <<c.type, c.priority>>
           /\ DOMAIN c = {"type", "priority", "suggested_labels"}

\* a text with a feature, a documentation and an urgent keyword, the last in
\* capitals: the type is feature and the priority high
C20_Witness ==
    /\ MethodDone("classify_issue")
    /\ method_in.text = <<"U","r","g","e","n","t",":"," ","i","m","p","r","o","v","e"," ","t","h","e"," ","d","o","c","s">>
    /\ method_out.type = <<"f","e","a","t","u","r","e">>
    /\ method_out.priority = <<"h","i","g","h">>
    /\ method_out.suggested_labels = <<<<"f","e","a","t","u","r","e">>, <<"h","i","g","h">>>>


\* the first and the last position of text that hold no whitespace
Inked(text) == {i \in DOMAIN text : text[i] \notin Whitespace}
FirstOf(S) == CHOOSE i \in S : \A j \in S : i <= j
LastOf(S) == CHOOSE i \in S : \A j \in S : i >= j

\* text without the whitespace around it
Trimmed(text) ==
    IF Inked(text) = {} THEN <<>>
    ELSE SubSeq(text, FirstOf(Inked(text)), LastOf(Inked(text)))

\* the positions of the line ends of text
LineEnds(text) == {i \in DOMAIN text : text[i] = "\n"}

\* text up to its first line end
FirstLineOf(text) ==
    IF LineEnds(text) = {} THEN text
    ELSE SubSeq(text, 1, FirstOf(LineEnds(text)) - 1)

\* text after its first line end, nothing when it is one line
RemainingLinesOf(text) ==
    IF LineEnds(text) = {} THEN <<>>
    ELSE SubSeq(text, FirstOf(LineEnds(text)) + 1, Len(text))

\* the title the claim gives a first line
TitleFor(first) ==
    IF Len(first) > 100 THEN SubSeq(first, 1, 97) \o <<".",".",".">> ELSE first

\* C21 as stated: for every issue text the parsed title has length at most
\* 100; a first line of the text longer than 100 characters becomes its first
\* 97 characters followed by a three-character ellipsis (length exactly 100),
\* and a first line of at most 100 characters is kept unchanged.
C21_TitleTruncation ==
    MethodDone("_parse_issue_text") =>
        LET first == FirstLineOf(method_in.text)
            title == method_out.title
        IN /\ Len(title) <= 100
           /\ title = TitleFor(first)
           /\ Len(first) > 100 => Len(title) = 100

\* C21 amended: the same with the first line taken from the text after the
\* whitespace around the text is stripped: the title has length at most 100,
\* a first line longer than 100 characters becomes its first 97 characters and
\* "...", and a first line of at most 100 characters is kept unchanged.
C21_StrippedTitleTruncation ==
    MethodDone("_parse_issue_text") =>
        LET first == FirstLineOf(Trimmed(method_in.text))
            title == method_out.title
        IN /\ Len(title) <= 100
           /\ title = TitleFor(first)
           /\ Len(first) > 100 => Len(title) = 100

\* a text of several lines whose first line has 101 characters: the title is
\* the first 97 of them and "..."
C21_Witness ==
    /\ MethodDone("_parse_issue_text")
    /\ Len(FirstLineOf(Trimmed(method_in.text))) = 101
    /\ RemainingLinesOf(method_in.text) # <<>>
    /\ Len(method_out.title) = 100
    /\ SubSeq(method_out.title, 1, 97) = SubSeq(method_in.text, 1, 97)
    /\ SubSeq(method_out.title, 98, 100) = <<".",".",".">>

\* the lines the body opens with: the type and the priority of the text
BodyHeading(labels) ==
    <<"*","*","T","y","p","e",":","*","*"," ">> \o labels[1] \o <<"\n","*","*","P","r","i","o","r","i","t","y",":","*","*"," ">> \o labels[2]

\* C28: issue-text parsing takes the first line of the text as the title and
\* the lines after the first as the body (under the type and priority
\* heading); the first line is not part of the body, for a text of one line
\* as well as for a text of several lines.
C28_TitleFirstLineBodyRest ==
    MethodDone("_parse_issue_text") =>
        LET text == Trimmed(method_in.text)
            rest == RemainingLinesOf(text)
            heading == BodyHeading(method_out.suggested_labels)
        IN /\ method_out.title = TitleFor(FirstLineOf(text))
           /\ method_out.body = IF rest = <<>> THEN heading
                                ELSE heading \o <<"\n","\n">> \o rest

\* the call reached GitHub and GitHub accepted the new issue
CreateSucceeds == "get_repo" \notin method_in.fails /\ "create_issue" \notin method_in.fails

\* the open issues of the repository whose title holds one of the first three
\* words of title, letters compared without case
SimilarOpen(issues, title) ==
    LET words == Take(SplitWs(title), 3)
    IN {i \in DOMAIN issues :
          /\ issues[i].state = <<"o","p","e","n">>
          /\ \E w \in DOMAIN words : OccursIgnoringCase(words[w], issues[i].title)}

\* C27: a successful create_issue_from_text lists the open issues before it
\* creates the issue, creates exactly one issue whether the search finds no,
\* some or more than five similar issues or fails, reports at most 5 similar
\* issues, all of them open issues the repository held before the call, and
\* reports an empty list when the search fails.
C27_SearchNeverBlocksCreation ==
    (MethodDone("create_issue_from_text") /\ CreateSucceeds) =>
        LET before == method_in.issues
            after == method_out.issues
            out == method_out.out
            similar == out.val.d.similar_issues
            found == SimilarOpen(before, out.val.d.title)
        IN /\ out.kind = "return" /\ out.val.py = "dict" /\ ~HasError(out.val.d)
           /\ method_out.calls = <<"get_repo", "get_issues", "create_issue">>
           /\ Len(after) = Len(before) + 1
           /\ SubSeq(after, 1, Len(before)) = before
           /\ after[Len(after)].number = out.val.d.number
           /\ after[Len(after)].title = out.val.d.title
           /\ Len(similar) <= 5
           /\ \A k \in DOMAIN similar :
                 \E i \in found :
                    /\ similar[k].number = before[i].number
                    /\ similar[k].title = before[i].title
           /\ \A k, m \in DOMAIN similar : k # m => similar[k].number # similar[m].number
           /\ "get_issues" \in method_in.fails => similar = <<>>
           /\ "get_issues" \notin method_in.fails =>
                 Len(similar) = (IF Cardinality(found) < 5 THEN Cardinality(found) ELSE 5)

\* the repository holds six open issues similar to the new one: five are
\* reported and the issue is created as number MaxSimilar + 1
C27_Witness ==
    /\ MethodDone("create_issue_from_text")
    /\ method_in.fails = {}
    /\ Len(method_in.issues) = MaxSimilar
    /\ Cardinality(SimilarOpen(method_in.issues, method_in.text)) > 5
    /\ Len(method_out.out.val.d.similar_issues) = 5
    /\ Len(method_out.issues) = MaxSimilar + 1
    /\ method_out.out.val.d.number = MaxSimilar + 1
-----------------------------------------------------------------------------
(***************************************************************************)
(* Claims about the response extraction of HubMindAgent.chat               *)
(***************************************************************************)

\* chat() reached the extraction: its last invoke returned a result
Extracted ==
    /\ chat_pc = "done"
    /\ Len(invokeLog) >= 1
    /\ invokeLog[Len(invokeLog)].outcome.kind = "return"

\* the result shapes the specification documents
HasMessageList(r) == r.isDict /\ r.hasMessages /\ Len(r.messages) > 0
HasOutputField(r) == r.isDict /\ r.hasOutput
IsBareValue(r) == ~r.isDict /\ ~r.hasContent

\* message m carries text that is not empty
HasText(m) == m.has /\ IsStr(m.content) /\ ~StripIsEmpty(m.content.s)

\* the positions of the messages of r that carry text
WithText(r) == {i \in DOMAIN r.messages : HasText(r.messages[i])}

\* what the ordered fallback of the specification gives for r
OrderedFallback(r) ==
    IF HasMessageList(r) /\ WithText(r) # {}
    THEN r.messages[CHOOSE i \in WithText(r) : \A j \in WithText(r) : j <= i].content
    ELSE IF HasOutputField(r) THEN r.output
    ELSE StrResult(r)

\* C22: for a result that is a dict or a bare value the extraction returns
\* the content of the last message with non-empty text; when no message
\* yields text, the result's "output" field; when there is none either,
\* str(result); and the extraction raises for no result.
C22_OrderedFallback ==
    (Extracted /\ (result.isDict \/ IsBareValue(result))) =>
        /\ chat_raised = NoExc
        /\ chat_ret = Return(OrderedFallback(result))

\* C23: for a result with a message list, a result with an "output" field
\* and a bare value, the extraction returns a string that is not empty.
C23_NonEmptyStringPerShape ==
    (Extracted /\ (HasMessageList(result) \/ HasOutputField(result)
                      \/ IsBareValue(result))) =>
        /\ chat_raised = NoExc
        /\ chat_ret.kind = "return"
        /\ IsStr(chat_ret.val)
        /\ chat_ret.val.s # ""

\* a turn of the history as the message the model is given for it
AsMessage(turn) ==
    [role |-> IF turn.role = "user" THEN "human" ELSE "ai", content |-> turn.content]

\* the turns of history in order, then message as the newest turn
ContextOf(history, message) ==
    [i \in 1..Len(history) |-> AsMessage(history[i])] \o <<HumanMessage(message)>>

\* C25: the context given to the model at every invoke of a chat call is the
\* turns of the history passed to chat(), in order, followed by the new user
\* message; it depends neither on the thread id nor on earlier chat calls.
C25_HistoryCarriesMemory ==
    \A i \in DOMAIN invokeLog :
        invokeLog[i].input = ContextOf(chat_history, chat_message)

-----------------------------------------------------------------------------
\* Registration: backend/main.py register and update_settings over the users
\* and user_settings tables of backend/database.py.  Every request has a
\* database session of its own (get_db), so requests served by different
\* workers interleave between their database statements; what a request reads
\* is what has been committed.

RegisterInit ==
    /\ db = [users |-> <<>>, user_settings |-> <<>>]
    /\ auth_requests = <<>>

Usernames == {<<>>, <<" "," ">>, <<"a","l","i","c","e">>, <<" ","a","l","i","c","e"," ">>, <<"b","o","b">>}
Passwords == {<<"1","2","3","4","5">>, <<"1","2","3","4","5","6">>}

get_password_hash(password) == [bcrypt |-> password]

\* User: id is the primary key, username is unique
User(id, username, password_hash) ==
    [id |-> id, username |-> username, password_hash |-> password_hash]

\* UserSettings: user_id is unique, llm_provider defaults to deepseek
UserSettings(id, user_id) ==
    [id |-> id, user_id |-> user_id, llm_provider |-> <<"d","e","e","p","s","e","e","k">>]

\* a users table whose username column has no unique index
UsernameNotIndexed(users, username) == FALSE

\* the unique index on users.username refuses a second row with that name
UsernameTaken(users, username) ==
    \E i \in DOMAIN users : users[i].username = username

\* the unique index on user_settings.user_id refuses a second row for a user
SettingsTaken(user_settings, user_id) ==
    \E i \in DOMAIN user_settings : user_settings[i].user_id = user_id

\* db.query(UserSettings).filter(UserSettings.user_id == user_id).first()
get_user_settings(user_settings, user_id) ==
    {i \in DOMAIN user_settings : user_settings[i].user_id = user_id}

RegisterRequest(username, password) ==
    [kind |-> "register", pc |-> "arrived", username |-> username,
     password |-> password, user_id |-> 0, status |-> 0]

SettingsUpdateRequest(user_id) ==
    [kind |-> "update_settings", pc |-> "arrived", username |-> <<>>,
     password |-> <<>>, user_id |-> user_id, status |-> 0]

Answered(r, status) == [r EXCEPT !.pc = "done", !.status = status]

Arrived(kind) == {i \in DOMAIN auth_requests : auth_requests[i].kind = kind}

\* a register request arrives and its fields are checked: an empty or blank
\* username and a password shorter than 6 are answered 400
RegisterValidate ==
    \E username \in Usernames, password \in Passwords :
        /\ Cardinality(Arrived("register")) < MaxSignups
        /\ LET r == RegisterRequest(username, password)
               bad == username = <<>> \/ Strip(username) = <<>> \/ Len(password) < 6
           IN auth_requests' = Append(auth_requests,
                  IF bad THEN Answered(r, 400)
                  ELSE [r EXCEPT !.pc = "query", !.username = Strip(username)])
        /\ UNCHANGED db
        /\ UNCHANGED otherThanRegister

\* existing = db.query(User).filter(User.username == username).first()
RegisterQuery ==
    \E i \in DOMAIN auth_requests :
        /\ auth_requests[i].kind = "register"
        /\ auth_requests[i].pc = "query"
        /\ auth_requests' = [auth_requests EXCEPT ![i] =
               IF \E u \in DOMAIN db.users : db.users[u].username = @.username
               THEN Answered(@, 400)
               ELSE [@ EXCEPT !.pc = "add_user"]]
        /\ UNCHANGED db
        /\ UNCHANGED otherThanRegister

\* db.add(user); db.commit(); db.refresh(user): the row is written unless the
\* unique index refuses it, and then the handler rolls back and answers 500
RegisterAddUser ==
    \E i \in DOMAIN auth_requests :
        /\ auth_requests[i].kind = "register"
        /\ auth_requests[i].pc = "add_user"
        /\ LET r == auth_requests[i]
               id == Len(db.users) + 1
           IN IF UsernameTaken(db.users, r.username)
              THEN /\ auth_requests' = [auth_requests EXCEPT ![i] = Answered(r, 500)]
                   /\ UNCHANGED db
              ELSE /\ db' = [db EXCEPT !.users = Append(@,
                                 User(id, r.username, get_password_hash(r.password)))]
                   /\ auth_requests' = [auth_requests EXCEPT ![i] =
                          [r EXCEPT !.pc = "add_settings", !.user_id = id]]
        /\ UNCHANGED otherThanRegister

\* settings = UserSettings(user_id=user.id); db.add(settings); db.commit(),
\* then the token is returned
RegisterAddSettings ==
    \E i \in DOMAIN auth_requests :
        /\ auth_requests[i].kind = "register"
        /\ auth_requests[i].pc = "add_settings"
        /\ LET r == auth_requests[i]
           IN IF SettingsTaken(db.user_settings, r.user_id)
              THEN /\ auth_requests' = [auth_requests EXCEPT ![i] = Answered(r, 500)]
                   /\ UNCHANGED db
              ELSE /\ db' = [db EXCEPT !.user_settings = Append(@,
                                 UserSettings(Len(@) + 1, r.user_id))]
                   /\ auth_requests' = [auth_requests EXCEPT ![i] = Answered(r, 200)]
        /\ UNCHANGED otherThanRegister

\* PUT /api/settings with the token of a user that has a row: the settings row
\* is looked up and, when there is one, updated
UpdateSettingsQuery ==
    \E u \in DOMAIN db.users :
        /\ Cardinality(Arrived("update_settings")) < MaxSettingsPuts
        /\ LET r == SettingsUpdateRequest(db.users[u].id)
               found == get_user_settings(db.user_settings, r.user_id)
           IN IF found = {}
              THEN /\ auth_requests' = Append(auth_requests, [r EXCEPT !.pc = "add_settings"])
                   /\ UNCHANGED db
              ELSE /\ db' = [db EXCEPT !.user_settings =
                          [s \in DOMAIN @ |->
                              IF s \in found /\ \A t \in found : s <= t
                              THEN [@[s] EXCEPT !.llm_provider = <<"o","p","e","n","a","i">>]
                              ELSE @[s]]]
                   /\ auth_requests' = Append(auth_requests, Answered(r, 200))
        /\ UNCHANGED otherThanRegister

\* no settings row was found: one is added and committed, then updated; the
\* unique index refuses it when the user got a row meanwhile
UpdateSettingsAdd ==
    \E i \in DOMAIN auth_requests :
        /\ auth_requests[i].kind = "update_settings"
        /\ auth_requests[i].pc = "add_settings"
        /\ LET r == auth_requests[i]
           IN IF SettingsTaken(db.user_settings, r.user_id)
              THEN /\ auth_requests' = [auth_requests EXCEPT ![i] = Answered(r, 500)]
                   /\ UNCHANGED db
              ELSE /\ db' = [db EXCEPT !.user_settings = Append(@,
                                 [UserSettings(Len(@) + 1, r.user_id)
                                     EXCEPT !.llm_provider = <<"o","p","e","n","a","i">>])]
                   /\ auth_requests' = [auth_requests EXCEPT ![i] = Answered(r, 200)]
        /\ UNCHANGED otherThanRegister

NextRegister ==
    \/ RegisterValidate
    \/ RegisterQuery
    \/ RegisterAddUser
    \/ RegisterAddSettings
    \/ UpdateSettingsQuery
    \/ UpdateSettingsAdd

-----------------------------------------------------------------------------
\* Claims about registration

UserRows(user_id) == {u \in DOMAIN db.users : db.users[u].id = user_id}
SettingsRows(user_id) ==
    {s \in DOMAIN db.user_settings : db.user_settings[s].user_id = user_id}

NoSharedUsername ==
    \A u, v \in DOMAIN db.users :
        u # v => Strip(db.users[u].username) # Strip(db.users[v].username)

\* a user is registered once a register request for it was answered 200
Registered == {i \in Arrived("register") : auth_requests[i].status = 200}

OneSettingsRowEach ==
    /\ \A i \in Registered :
          /\ Cardinality(UserRows(auth_requests[i].user_id)) = 1
          /\ Cardinality(SettingsRows(auth_requests[i].user_id)) = 1
    /\ \A u \in DOMAIN db.users : Cardinality(SettingsRows(db.users[u].id)) <= 1

\* this step answers register request i with a refusal: at its arrival (empty
\* username, short password), at its query or at the insert of its user row
\* (username taken)
Rejects(i) ==
    /\ i \in DOMAIN auth_requests'
    /\ auth_requests'[i].kind = "register"
    /\ auth_requests'[i].pc = "done"
    /\ auth_requests'[i].status # 200
    /\ \/ i \notin DOMAIN auth_requests
       \/ auth_requests[i].pc \in {"query", "add_user"}

RegisterStep ==
    /\ NoSharedUsername'
    /\ OneSettingsRowEach'
    /\ (\E i \in DOMAIN auth_requests' : Rejects(i)) => db' = db

\* C30: whatever register requests arrive and however their database
\* statements interleave, no two user rows have the same stripped username,
\* every user whose registration was answered 200 has exactly one user row and
\* exactly one settings row (and no user ever has two), and a step that refuses
\* a register request (empty or blank username, password shorter than 6,
\* username taken) leaves both tables as they were.
C30_RegisterKeepsTablesConsistent == [][RegisterStep]_vars

\* two requests for the same stripped name both passed the query; one was
\* answered 200, the other was refused by the unique index, and the tables
\* hold one user with one settings row
C30_Witness ==
    \E i, j \in Arrived("register") :
        /\ auth_requests[i].status = 200
        /\ auth_requests[j].status = 500
        /\ auth_requests[j].user_id = 0
        /\ auth_requests[i].username = auth_requests[j].username
        /\ Len(db.users) = 1
        /\ Len(db.user_settings) = 1

-----------------------------------------------------------------------------
Init == ChatInit /\ ToolsInit /\ QaInit /\ FactoryInit /\ AdapterInit
          /\ BackendInit /\ MethodInit /\ RegisterInit

SpecChat == Init /\ [][NextChat]_vars
SpecTools == Init /\ [][NextTools]_vars
SpecQa == Init /\ [][NextQa]_vars
SpecFactory == Init /\ [][NextFactory]_vars
SpecAdapters == Init /\ [][NextAdapters]_vars
SpecBackend == Init /\ [][NextBackend]_vars
SpecMethods == Init /\ [][NextMethods]_vars
SpecRegister == Init /\ [][NextRegister]_vars

=============================================================================
